---- MODULE Spec2Model ----
(***************************************************************************)
(* Model of the traffic-scenario driver of CBSvC:                          *)
(*   src/scenarios/traffic.py   TrafficGenerator (spawning, behaviour,     *)
(*                              congestion injection)                      *)
(*   src/scenarios/weather.py   WeatherManager                             *)
(*   src/scenarios/scenario.py  main(): startup, tick loop, teardown       *)
(* The simulation environment (CARLA) is the nondeterministic part: batch  *)
(* items and spawn attempts succeed or fail, coin tosses fall either way,  *)
(* vehicles of other clients join and tracked vehicles disappear.          *)
(***************************************************************************)
EXTENDS Integers, Sequences, FiniteSets, TLC

VARIABLES
    pc,                  \* position of the running program
    args,                \* parsed command line (scenario.py 142-246)
    locals,              \* names bound so far in main()
    counter,             \* TrafficGenerator.counter
    alt,                 \* TrafficGenerator.alt
    vehicles_list,       \* TrafficGenerator.vehicles_list
    walkers_list,        \* TrafficGenerator.walkers_list
    combined_walker_ids, \* TrafficGenerator.combined_walker_ids
    weather_type,        \* WeatherManager.weather_type
    time_of_day,         \* WeatherManager.time_of_day
    current_weather,     \* WeatherManager.current_weather (which object it refers to)
    weather_objs,        \* the WeatherParameters objects held by the manager
    wm_vehicles,         \* WeatherManager.vehicles
    world_vehicles,      \* environment: live vehicles spawned by this program
    n_external,          \* environment: live vehicles of other clients
    n_spawn_points,      \* environment: number of spawn points of the map
    next_id,             \* environment: next actor id to issue
    vehicle_state,       \* environment: per-vehicle light mask, TM parameters, route
    env_weather,         \* environment: weather parameters last pushed
    faults,              \* environment: the kinds of failure it can produce
    destroyed,           \* environment: ids for which a destroy command was submitted
    stopped,             \* environment: controllers on which stop() was called
    started,             \* environment: controllers started, with their max speed
    out,                 \* calls and log lines produced by the last step, in order
    last_call,           \* the last spawn_congestion_vehicle call: what it saw, what it did
    tick_no,             \* number of spawn_congestion_vehicle calls of a driven injector
    hist_ok,             \* all those calls saw a count below the cap and a successful spawn
    teardown_runs,       \* how many times the teardown block was entered
    weather_index        \* World._weather_index of the driving client

vars == <<pc, args, locals, counter, alt, vehicles_list, walkers_list,
          combined_walker_ids, weather_type, time_of_day, current_weather,
          weather_objs, wm_vehicles, world_vehicles, n_external, next_id,
          vehicle_state, env_weather, faults, destroyed, stopped, started,
          out, last_call, tick_no, hist_ok, teardown_runs,
          weather_index, n_spawn_points>>

(***************************************************************************)
(* Bounds of the model                                                     *)
(***************************************************************************)
MaxTick == 45        \* calls of a driven injector
MaxRemoved == 1      \* tracked vehicles the environment may remove
MaxJoin == 1         \* vehicles of other clients that may join during a run
MaxVehicles == 1     \* largest requested vehicle count of a general run
MaxWalkers == 1      \* largest requested walker count of a general run
MaxNightFog == 3     \* times the night offset may be added to one fog density
MaxExcess == 2       \* requested vehicles beyond the spawn points of the map
MaxExtraPoints == 1  \* spawn points of the map beyond those the routes index
FailWindow == 3      \* items at each end of a long batch that may fail
WalkersRealigned == 3 \* walkers of a run in which body spawns may fail
TickCycle == 2        \* calls of an endlessly driven injector are counted modulo this
MaxBehaviorCalls == 1 \* set_aggressive_behavior calls made on one vehicle

(***************************************************************************)
(* Program constants                                                       *)
(***************************************************************************)
spawn_delay == 20
VehicleCap == 200
SpawnPointAlt == 32
SpawnPointNotAlt == 149
IGNORE_LIGHTS_PERCENT == 100
IGNORE_SIGNS_PERCENT == 100
SPEED_DIFF_PERCENT == -20
FoggyDensity == 40
NightFogOffset == 20
DefaultWalkers == 10
MapSpawnPoints == 155
route_1_indices == <<129, 28, 124, 33, 97, 119, 58, 154, 147>>
route_2_indices == <<21, 76, 38, 34, 90, 3>>

None == "None"

Scenario == {"default", "night", "overspeeding", "distracted", "congestion"}
WeatherType == {"CLEAR", "FOGGY", "RAINY", "CLOUDY"}
TimeOfDay == {"NOON", "NIGHT"}
WeatherChoices == {"CLEAR", "FOGGY", "RAINY"}
FaultKinds == {"nav", "speed", "body", "controller", "vehicle", "congestion",
               "blueprints"}

Traits == {"lane_change", "ignore_light", "ignore_signs", "overspeed"}
EnableMask == [Traits -> BOOLEAN]
Tosses == [lane_change : BOOLEAN, ignore_light : BOOLEAN, ignore_signs : BOOLEAN,
           overspeed : BOOLEAN, direction : BOOLEAN]

Mask(lc, il, is, os) ==
    [t \in Traits |-> CASE t = "lane_change" -> lc
                        [] t = "ignore_light" -> il
                        [] t = "ignore_signs" -> is
                        [] OTHER -> os]

\* A vehicle as the environment hands it out: no lights on, traffic-manager
\* parameters at their defaults.  Optional values are sequences of length 0
\* (Python's None) or 1.  enabled holds the four en_ arguments of the last
\* set_aggressive_behavior call made on the vehicle, if any; item is the
\* position in the spawn_vehicles batch of the command that created it.
NewVehicle ==
    [lights |-> {}, autopilot |-> FALSE, auto_lane_change |-> "default",
     lane |-> "none", ignore_lights |-> 0, ignore_signs |-> 0, speed_diff |-> 0,
     spawn_point |-> <<>>, path |-> <<>>, born |-> 0, enabled |-> <<>>,
     item |-> 0]

Range(s) == {s[i] : i \in 1..Len(s)}

\* n failures of one kind, each recovered with logging.error (traffic.py 159,
\* 241, 255; weather.py 88), and the variant that drops the log lines
FailLogSilent(n, kind) == [i \in 1..n |-> <<"fail", kind>>]

FailLog(n, kind) ==
    [i \in 1..n |-> <<"log", "error", kind>>] \o [i \in 1..n |-> <<"fail", kind>>]

(***************************************************************************)
(* TrafficGenerator.set_aggressive_behavior (traffic.py 165-185): the      *)
(* traffic-manager parameters of one vehicle after the call.  toss holds   *)
(* the four coin tosses of line 170 and the one of line 172.               *)
(***************************************************************************)
\* variant: the enable flags are not looked at
set_aggressive_behaviorAnyTrait(v, en, toss) ==
    [v EXCEPT
        !.enabled = <<en>>,
        !.lane = IF toss.lane_change
                 THEN (IF toss.direction THEN "forced_true" ELSE "forced_false")
                 ELSE @,
        !.ignore_lights = IF toss.ignore_light THEN IGNORE_LIGHTS_PERCENT ELSE @,
        !.ignore_signs = IF toss.ignore_signs THEN IGNORE_SIGNS_PERCENT ELSE @,
        !.speed_diff = IF toss.overspeed THEN SPEED_DIFF_PERCENT ELSE @]

set_aggressive_behavior(v, en, toss) ==
    [v EXCEPT
        !.enabled = <<en>>,
        !.lane = IF en["lane_change"] /\ toss.lane_change
                 THEN (IF toss.direction THEN "forced_true" ELSE "forced_false")
                 ELSE @,
        !.ignore_lights = IF en["ignore_light"] /\ toss.ignore_light
                          THEN IGNORE_LIGHTS_PERCENT ELSE @,
        !.ignore_signs = IF en["ignore_signs"] /\ toss.ignore_signs
                         THEN IGNORE_SIGNS_PERCENT ELSE @,
        !.speed_diff = IF en["overspeed"] /\ toss.overspeed
                       THEN SPEED_DIFF_PERCENT ELSE @]

\* Log lines of set_aggressive_behavior, one per effect applied.
AggressionLog(en, toss) ==
    (IF en["lane_change"] /\ toss.lane_change THEN <<<<"log", "info", "force_lane_change">>>> ELSE <<>>)
    \o (IF en["ignore_light"] /\ toss.ignore_light THEN <<<<"log", "info", "ignore_lights">>>> ELSE <<>>)
    \o (IF en["ignore_signs"] /\ toss.ignore_signs THEN <<<<"log", "info", "ignore_signs">>>> ELSE <<>>)
    \o (IF en["overspeed"] /\ toss.overspeed THEN <<<<"log", "info", "overspeed">>>> ELSE <<>>)

(***************************************************************************)
(* WeatherManager.set_car_lights (weather.py 80-95): the light mask of a   *)
(* vehicle after the call, masks being sets of light bits.                 *)
(***************************************************************************)
\* line 92, 94: the bits the weather asks for
LightBits(wt) ==
    IF wt = "FOGGY" THEN {"Fog", "LowBeam"}
    ELSE IF wt = "RAINY" THEN {"LowBeam"}
    ELSE {}

\* variants: the mask is replaced by the bits, the bits are flipped
set_car_lightsOverwrite(wt, mask) == IF wt = None THEN mask ELSE LightBits(wt)

set_car_lightsToggle(wt, mask) ==
    IF wt = None THEN mask
    ELSE (mask \ LightBits(wt)) \cup (LightBits(wt) \ mask)

\* variant: the mask is written back as it was read
set_car_lightsSkipped(wt, mask) == mask

set_car_lights(wt, mask) ==
    IF wt = None THEN mask
    ELSE IF wt = "FOGGY" THEN mask \cup {"Fog", "LowBeam"}
    ELSE IF wt = "RAINY" THEN mask \cup {"LowBeam"}
    ELSE mask

(***************************************************************************)
(* WeatherManager (weather.py 42-160).  A manager m is the record of its   *)
(* fields; current_weather names the WeatherParameters object it refers to *)
(* (set_weather binds a reference, lines 128-134, so set_time_of_day       *)
(* writes into the object held in m.objs).  Each method yields the manager *)
(* after the call, the events of the call and whether it raised.           *)
(***************************************************************************)
\* What a caller may pass: the types the command lines offer (scenario.py
\* 186, weather.py 191 without cloudy, which the preset cycle covers) and a
\* value that is no weather type.
WeatherInputs == WeatherChoices \cup {"BOGUS"}
TimeInputs == TimeOfDay \cup {"BOGUS"}

\* weather.py 116-136, and the variant without the else branch of line 135
set_weatherLenient(m, wt) ==
    LET m1 == [m EXCEPT !.weather_type = wt]
    IN  IF wt \in WeatherType
        THEN [m |-> [m1 EXCEPT !.current_weather = wt],
              out |-> <<<<"enter", "set_weather", wt>>>>, raised |-> FALSE]
        ELSE [m |-> m1, out |-> <<<<"enter", "set_weather", wt>>>>, raised |-> FALSE]

set_weather(m, wt) ==
    LET m1 == [m EXCEPT !.weather_type = wt]
    IN  IF wt \in WeatherType
        THEN [m |-> [m1 EXCEPT !.current_weather = wt],
              out |-> <<<<"enter", "set_weather", wt>>>>, raised |-> FALSE]
        ELSE [m |-> m1,
              out |-> <<<<"enter", "set_weather", wt>>, <<"raise", "ValueError">>>>,
              raised |-> TRUE]

\* weather.py 158: the fog density after the night offset
NightFog(d) == d + NightFogOffset

\* weather.py 153, 155
SunAltitude(t) == IF t = "NOON" THEN 90 ELSE -90

\* weather.py 138-160, and the variant that stores the time of day before
\* looking at the weather
set_time_of_dayStoreFirst(m, t) ==
    LET enter == <<<<"enter", "set_time_of_day", t>>>>
    IN  [m |-> [m EXCEPT !.time_of_day = t],
         out |-> enter \o <<<<"fail", "time_before_weather">>,
                            <<"log", "error", "time_before_weather">>>>,
         raised |-> FALSE]

set_time_of_day(m, t) ==
    LET enter == <<<<"enter", "set_time_of_day", t>>>>
    IN  IF m.current_weather = None
        THEN [m |-> m,
              out |-> enter \o <<<<"fail", "time_before_weather">>,
                                 <<"log", "error", "time_before_weather">>>>,
              raised |-> FALSE]
        ELSE LET cw == m.current_weather
                 m1 == [m EXCEPT !.time_of_day = t]
             IN  IF t = "NOON"
                 THEN [m |-> [m1 EXCEPT !.objs[cw].sun_altitude_angle = SunAltitude(t)],
                       out |-> enter, raised |-> FALSE]
                 ELSE IF t = "NIGHT"
                 THEN [m |-> [m1 EXCEPT
                                !.objs[cw].sun_altitude_angle = SunAltitude(t),
                                !.objs[cw].fog_density =
                                    IF m.weather_type = "FOGGY" THEN NightFog(@) ELSE @],
                       out |-> enter, raised |-> FALSE]
                 ELSE [m |-> m1, out |-> enter \o <<<<"raise", "ValueError">>>>,
                       raised |-> TRUE]

\* weather.py 97-104: the light masks after set_car_lights_all, and its events
set_car_lights_all(m, vehicles, vstate) ==
    [vstate |-> [v \in DOMAIN vstate |->
                    IF v \in Range(vehicles)
                    THEN [vstate[v] EXCEPT !.lights = set_car_lights(m.weather_type, @)]
                    ELSE vstate[v]],
     out |-> (IF vehicles = <<>> THEN <<<<"log", "warning", "no_vehicle_info">>>> ELSE <<>>)
             \o FailLog(IF m.weather_type = None THEN Len(vehicles) ELSE 0,
                        "weather_not_set")]

\* weather.py 106-114.  world.set_weather(None) is rejected by the simulator
\* client; the log line of 112-114 reads .name of both fields.
apply_settings(m, vehicles, vstate, pushed) ==
    LET l == set_car_lights_all(m, vehicles, vstate)
        enter == <<<<"enter", "apply_settings", "">>>>
    IN  IF m.current_weather = None
        THEN [vstate |-> l.vstate, pushed |-> pushed,
              out |-> enter \o l.out \o <<<<"raise", "ArgumentError">>>>,
              raised |-> TRUE]
        ELSE LET o == enter \o l.out \o <<<<"call", "world.set_weather">>>>
             IN  IF m.weather_type \in WeatherType /\ m.time_of_day \in TimeOfDay
                 THEN [vstate |-> l.vstate, pushed |-> <<m.objs[m.current_weather]>>,
                       out |-> o \o <<<<"log", "info", "weather_set">>>>,
                       raised |-> FALSE]
                 ELSE [vstate |-> l.vstate, pushed |-> <<m.objs[m.current_weather]>>,
                       out |-> o \o <<<<"raise", "AttributeError">>>>,
                       raised |-> TRUE]

\* The manager held in the state
WM == [weather_type |-> weather_type, time_of_day |-> time_of_day,
       current_weather |-> current_weather, objs |-> weather_objs]

SetWM(m) ==
    /\ weather_type' = m.weather_type
    /\ time_of_day' = m.time_of_day
    /\ current_weather' = m.current_weather
    /\ weather_objs' = m.objs

\* weather.py 163-172
WEATHER_PRESETS ==
    <<<<"CLEAR", "NOON">>, <<"CLOUDY", "NOON">>, <<"RAINY", "NOON">>, <<"FOGGY", "NOON">>,
      <<"CLEAR", "NIGHT">>, <<"CLOUDY", "NIGHT">>, <<"RAINY", "NIGHT">>, <<"FOGGY", "NIGHT">>>>

(***************************************************************************)
(* TrafficGenerator.spawn_congestion_vehicle (traffic.py 96-117) as a      *)
(* function of the counter c, the flag a, the live vehicle count n and the *)
(* outcome ok of try_spawn_actor.                                          *)
(***************************************************************************)
\* Variants of the operators below, each changed the way a slip in the code
\* would change it.
WaitingCounterNoFloor(c) == c - 1
WaitingCounterStuck(c) == c
AttemptAltFlipAlways(a, ok) == ~a
AttemptCounterNoReset(c, ok) == c

\* line 116: the counter after a call that makes no attempt
WaitingCounter(c) == c - (IF c > 0 THEN 1 ELSE 0)

\* lines 101-114: the counter after an attempt (the return of line 113 skips
\* line 114)
AttemptCounter(c, ok) == IF ok THEN c ELSE spawn_delay

\* lines 110, 114: the flag after an attempt
AttemptAlt(a, ok) == IF ok THEN ~a ELSE a

\* line 99
CongestionSpawnPoint(a) == IF a THEN SpawnPointAlt ELSE SpawnPointNotAlt

\* line 108
CongestionPath(a) == IF a THEN route_1_indices ELSE route_2_indices

\* line 98, and the variants that let one more vehicle in, or any number
CongestionReadyAtCap(c, n) == c = 0 /\ n <= VehicleCap
CongestionReadyIgnoresCap(c, n) == c = 0

\* variant that stops one vehicle short of the cap
CongestionReadyShortOfCap(c, n) == c = 0 /\ n < VehicleCap - 1

CongestionReady(c, n) == c = 0 /\ n < VehicleCap

CongestionStep(c, a, n, ok) ==
    IF CongestionReady(c, n)
    THEN [attempt |-> TRUE, spawned |-> ok,
          spawn_point |-> IF ok THEN <<CongestionSpawnPoint(a)>> ELSE <<>>,
          path |-> IF ok THEN CongestionPath(a) ELSE <<>>,
          alt |-> AttemptAlt(a, ok), counter |-> AttemptCounter(c, ok)]
    ELSE [attempt |-> FALSE, spawned |-> FALSE, spawn_point |-> <<>>,
          path |-> <<>>, alt |-> a, counter |-> WaitingCounter(c)]

NoCall == [called |-> FALSE, c |-> 0, a |-> FALSE, n |-> 0,
           attempt |-> FALSE, ret |-> <<>>]

LiveVehicleCount == n_external + Cardinality(world_vehicles)

\* One spawn_congestion_vehicle call in the current state: the new field
\* values, the vehicle it returns (none, or its id and state) and its events.
\* toss is used only under --aggression (line 104).
spawn_congestion_vehicle(ok, toss) ==
    LET r == CongestionStep(counter, alt, LiveVehicleCount, ok)
        st0 == [NewVehicle EXCEPT !.autopilot = TRUE, !.auto_lane_change = "on",
                                  !.spawn_point = r.spawn_point, !.path = r.path,
                                  !.born = tick_no + 1]
        st == IF args.aggression
              THEN set_aggressive_behavior(st0, Mask(TRUE, TRUE, TRUE, TRUE), toss)
              ELSE st0
    IN  [counter |-> r.counter,
         alt |-> r.alt,
         spawned |-> r.spawned,
         vehicle |-> st,
         call |-> [called |-> TRUE, c |-> counter, a |-> alt,
                   n |-> LiveVehicleCount, attempt |-> r.attempt,
                   ret |-> IF r.spawned THEN <<next_id>> ELSE <<>>],
         out |-> IF r.spawned
                 THEN (IF args.aggression
                       THEN AggressionLog(Mask(TRUE, TRUE, TRUE, TRUE), toss)
                       ELSE <<>>)
                      \o <<<<"log", "info", "congestion_spawned">>>>
                 ELSE IF r.attempt THEN <<<<"fail", "congestion">>>> ELSE <<>>]

\* The state after the call r, the returned vehicle having the light mask
\* lights.
AfterCongestionCall(r, lights) ==
    /\ counter' = r.counter
    /\ alt' = r.alt
    /\ last_call' = r.call
    /\ out' = r.out
    /\ IF r.spawned
       THEN /\ vehicles_list' = Append(vehicles_list, next_id)
            /\ world_vehicles' = world_vehicles \cup {next_id}
            /\ vehicle_state' = (next_id :> [r.vehicle EXCEPT !.lights = lights])
                                   @@ vehicle_state
            /\ next_id' = next_id + 1
       ELSE UNCHANGED <<vehicles_list, world_vehicles, next_id, vehicle_state>>

\* The spawn outcomes the environment can produce, and the coin tosses that
\* make a difference.
SpawnOutcomes == IF "congestion" \in faults THEN BOOLEAN ELSE {TRUE}
TossesFor(aggr) ==
    IF aggr THEN {t \in Tosses : t.lane_change \/ ~t.direction}
    ELSE {[lane_change |-> FALSE, ignore_light |-> FALSE, ignore_signs |-> FALSE,
           overspeed |-> FALSE, direction |-> FALSE]}

(***************************************************************************)
(* Environment steps: a vehicle of another client joins the world, a       *)
(* tracked vehicle is removed from it.                                     *)
(***************************************************************************)
EnvFrame ==
    UNCHANGED <<pc, args, locals, counter, alt, vehicles_list, walkers_list,
                combined_walker_ids, weather_type, time_of_day, current_weather,
                weather_objs, wm_vehicles, next_id, vehicle_state, env_weather,
                faults, destroyed, stopped, started, last_call, tick_no, hist_ok,
                teardown_runs, weather_index, n_spawn_points>>

\* The population of other clients' vehicles is observed either near zero or
\* near the cap.
ExternalLevels == (0..MaxJoin) \cup ((VehicleCap - 1)..(VehicleCap - 1 + MaxJoin))

Running == pc \in {"loop", "injector"}

ExternalJoin ==
    /\ Running
    /\ n_external + 1 \in ExternalLevels
    /\ n_external' = n_external + 1
    /\ out' = <<>>
    /\ UNCHANGED world_vehicles
    /\ EnvFrame

ExternalLeave ==
    /\ Running
    /\ n_external - 1 \in ExternalLevels
    /\ n_external' = n_external - 1
    /\ out' = <<>>
    /\ UNCHANGED world_vehicles
    /\ EnvFrame

\* The oldest live tracked vehicle disappears (which one does not matter to
\* the program, which only counts the live vehicles).
ActorRemoved ==
    /\ Running
    /\ world_vehicles # {}
    /\ Cardinality(Range(vehicles_list) \ world_vehicles) < MaxRemoved
    /\ LET v == CHOOSE x \in world_vehicles : \A y \in world_vehicles : x <= y
       IN  world_vehicles' = world_vehicles \ {v}
    /\ out' = <<>>
    /\ UNCHANGED n_external
    /\ EnvFrame

(***************************************************************************)
(* Initial states.  The TrafficGenerator fields are those of __init__      *)
(* (traffic.py 48-61), the WeatherManager fields those of its __init__     *)
(* (weather.py 64-78).                                                     *)
(***************************************************************************)
ArgsOf(sc, ag, cg, w, t, nv, nw) ==
    [scenario |-> sc, aggression |-> ag, congestion |-> cg, weather |-> w,
     time |-> t, number_of_vehicles |-> nv, number_of_walkers |-> nw]

\* argparse defaults (scenario.py 162-193) for a given scenario
DefaultArgs(sc) == ArgsOf(sc, FALSE, FALSE, "clear", "noon", 0, 0)

\* The values the simulator library gives to the fields of its noon presets
\* (any values other than those the manager writes would do).
LibraryPreset == [sun |-> 45, fog |-> 0]

\* The four WeatherParameters objects of WeatherManager.__init__ (weather.py
\* 66-75); only the fields the manager writes are kept.
InitialWeatherObjs(lib) ==
    [w \in WeatherType |->
        [sun_altitude_angle |-> lib.sun,
         fog_density |-> IF w = "FOGGY" THEN FoggyDensity ELSE lib.fog]]

InitFields ==
    /\ locals = {}
    /\ counter = spawn_delay
    /\ alt = FALSE
    /\ vehicles_list = <<>>
    /\ walkers_list = <<>>
    /\ combined_walker_ids = <<>>
    /\ weather_type = None
    /\ time_of_day = None
    /\ current_weather = None
    /\ weather_index = 0
    /\ wm_vehicles = <<>>
    /\ world_vehicles = {}
    /\ next_id = 1
    /\ vehicle_state = <<>>
    /\ env_weather = <<>>
    /\ destroyed = {}
    /\ stopped = {}
    /\ started = <<>>
    /\ out = <<>>
    /\ last_call = NoCall
    /\ tick_no = 0
    /\ hist_ok = TRUE
    /\ teardown_runs = 0

(***************************************************************************)
(* TrafficGenerator.spawn_vehicles (traffic.py 119-163) for nreq requested *)
(* vehicles and P spawn points; outcomes[i] tells whether item i of the    *)
(* batch succeeded, ids are issued from first_id on.                       *)
(***************************************************************************)
Min(a, b) == IF a < b THEN a ELSE b

Indices(n) == [i \in 1..n |-> i]

\* the items of a batch of n that succeeded, in submission order
Succeeded(n, outcomes) == SelectSeq(Indices(n), LAMBDA i : outcomes[i])

\* the ids the environment gives to the successful items
IssuedIds(k, first_id) == [j \in 1..k |-> first_id + j - 1]

\* lines 135-137: the loop over the spawn points stops at the requested count
\* (and the variant that submits one command per requested vehicle)
VehicleBatchSizeUnclamped(nreq, P) == nreq

VehicleBatchSize(nreq, P) == Min(nreq, P)

spawn_vehicles(nreq, P, outcomes, first_id) ==
    LET n == VehicleBatchSize(nreq, P)
        ok == Succeeded(n, outcomes)
        ids == IssuedIds(Len(ok), first_id)
    IN  [batch |-> n,
         ids |-> ids,
         items |-> ok,
         out |-> (IF nreq > P THEN <<<<"log", "warning", "spawn_points">>>> ELSE <<>>)
                 \o <<<<"call", "apply_batch_sync", "vehicles">>>>
                 \o FailLog(n - Len(ok), "vehicle")
                 \o <<<<"log", "info", "spawned_vehicles">>>>]

(***************************************************************************)
(* scenario.py 70-90: the mask main() passes to                            *)
(* set_aggressive_behavior_all, in the order (lane change, ignore lights,  *)
(* ignore signs, overspeed); no element when it makes no call.             *)
(***************************************************************************)
ScenarioMaskOverspeedIgnoresLights(scenario, aggression) ==
    IF aggression THEN <<Mask(TRUE, TRUE, TRUE, TRUE)>>
    ELSE IF scenario = "overspeeding" THEN <<Mask(TRUE, TRUE, FALSE, TRUE)>>
    ELSE IF scenario = "distracted" THEN <<Mask(FALSE, TRUE, TRUE, FALSE)>>
    ELSE <<>>

ScenarioMaskOwnMaskFirst(scenario, aggression) ==
    IF scenario = "overspeeding" THEN <<Mask(TRUE, FALSE, FALSE, TRUE)>>
    ELSE IF scenario = "distracted" THEN <<Mask(FALSE, TRUE, TRUE, FALSE)>>
    ELSE IF aggression THEN <<Mask(TRUE, TRUE, TRUE, TRUE)>>
    ELSE <<>>

ScenarioMaskDistractedOverspeeds(scenario, aggression) ==
    IF aggression THEN <<Mask(TRUE, TRUE, TRUE, TRUE)>>
    ELSE IF scenario = "overspeeding" THEN <<Mask(TRUE, FALSE, FALSE, TRUE)>>
    ELSE IF scenario = "distracted" THEN <<Mask(FALSE, TRUE, TRUE, TRUE)>>
    ELSE <<>>

ScenarioMask(scenario, aggression) ==
    IF aggression THEN <<Mask(TRUE, TRUE, TRUE, TRUE)>>
    ELSE IF scenario = "overspeeding" THEN <<Mask(TRUE, FALSE, FALSE, TRUE)>>
    ELSE IF scenario = "distracted" THEN <<Mask(FALSE, TRUE, TRUE, FALSE)>>
    ELSE <<>>

\* scenario.py 68, 117
SpawnsVehicles(a) == a.scenario # "congestion" /\ ~a.congestion
InjectsCongestion(a) == a.scenario = "congestion" \/ a.congestion

\* traffic.py 187-190: every vehicle of ids gets the mask, with its own tosses
set_aggressive_behavior_all(vstate, ids, en, tosses) ==
    [v \in DOMAIN vstate |->
        IF \E i \in 1..Len(ids) : ids[i] = v
        THEN set_aggressive_behavior(vstate[v], en,
                 tosses[CHOOSE i \in 1..Len(ids) : ids[i] = v])
        ELSE vstate[v]]

(***************************************************************************)
(* TrafficGenerator.spawn_walkers (traffic.py 200-278).  nav[i] tells      *)
(* whether the i-th location resolved, speed[i] whether the blueprint      *)
(* picked for the i-th resolved location has a speed attribute, body[i]    *)
(* and con[i] whether item i of the body and controller batches succeeded. *)
(* The speed value precomputed for the i-th resolved location is written   *)
(* i, and 0 when the blueprint has no speed attribute.                     *)
(***************************************************************************)
\* lines 208-215
ResolvedLocations(n, nav) == Len(Succeeded(n, nav))

\* lines 219-235
PlannedSpeeds(k, speed) == [i \in 1..k |-> IF speed[i] THEN i ELSE 0]

\* lines 237-245: the registry entries and the realigned speed list
BodyEntries(k, body, first_id) ==
    LET ok == Succeeded(k, body)
    IN  [j \in 1..Len(ok) |-> [id |-> first_id + j - 1]]

\* variant: the speed list is cut to length but not realigned
RealignedSpeedsByPosition(k, body, speeds) ==
    LET ok == Succeeded(k, body)
    IN  [j \in 1..Len(ok) |-> speeds[j]]

RealignedSpeeds(k, body, speeds) ==
    LET ok == Succeeded(k, body)
    IN  [j \in 1..Len(ok) |-> speeds[ok[j]]]

\* lines 219-236: the body batch as submitted and answered: for each command
\* the speed value computed for its blueprint and the actor id of the
\* response (0 for an error)
BodyBatch(k, body, speeds, first_id) ==
    LET ok == Succeeded(k, body)
    IN  <<"batch", "bodies", speeds,
          [i \in 1..k |-> IF body[i]
                          THEN first_id + (CHOOSE j \in 1..Len(ok) : ok[j] = i) - 1
                          ELSE 0]>>

\* lines 248-257: the entries after the controller batch
WithControllers(entries, con, first_id) ==
    LET ok == Succeeded(Len(entries), con)
    IN  [i \in 1..Len(entries) |->
            IF con[i]
            THEN [id |-> entries[i].id,
                  con |-> first_id + (CHOOSE j \in 1..Len(ok) : ok[j] = i) - 1]
            ELSE entries[i]]

\* lines 260-262: reading the 'con' key of an entry that has none raises
\* KeyError; the list holds the pairs appended before that
RECURSIVE CombineIds(_, _)
CombineIds(entries, i) ==
    IF i > Len(entries) THEN [ids |-> <<>>, raised |-> FALSE]
    ELSE IF "con" \notin DOMAIN entries[i] THEN [ids |-> <<>>, raised |-> TRUE]
    ELSE LET rest == CombineIds(entries, i + 1)
         IN  [ids |-> <<entries[i].con, entries[i].id>> \o rest.ids,
              raised |-> rest.raised]

\* lines 270-276: the controllers started, each with its max speed
StartedControllers(combined, speeds) ==
    [j \in 1..(Len(combined) \div 2) |->
        [con |-> combined[2 * j - 1], speed |-> speeds[j]]]

\* lines 264-265: the tick that lets the controllers take effect, and the
\* variant without it
SyncTickOmitted == <<>>

SyncTick == <<<<"call", "world.tick", "">>>>

spawn_walkers(n, nav, speed, body, con, first_id) ==
    LET k == ResolvedLocations(n, nav)
        speeds == PlannedSpeeds(k, speed)
        entries == BodyEntries(k, body, first_id)
        speeds2 == RealignedSpeeds(k, body, speeds)
        nb == Len(entries)
        entries2 == WithControllers(entries, con, first_id + nb)
        nc == Len(Succeeded(nb, con))
        c == CombineIds(entries2, 1)
        o1 == [i \in 1..(n - k) |-> <<"fail", "nav">>]
              \o [i \in 1..Len(SelectSeq(speeds, LAMBDA x : x = 0)) |->
                    <<"log", "warning", "no_speed">>]
              \o <<<<"call", "apply_batch_sync", "bodies">>,
                    BodyBatch(k, body, speeds, first_id)>>
              \o FailLog(k - nb, "body")
              \o <<<<"call", "apply_batch_sync", "controllers">>>>
              \o FailLog(nb - nc, "controller")
    IN  IF c.raised
        THEN [walkers_list |-> entries2, combined |-> c.ids, started |-> <<>>,
              next_id |-> first_id + nb + nc, raised |-> TRUE,
              out |-> o1 \o <<<<"raise", "KeyError">>>>]
        ELSE [walkers_list |-> entries2, combined |-> c.ids,
              started |-> StartedControllers(c.ids, speeds2),
              next_id |-> first_id + nb + nc, raised |-> FALSE,
              out |-> o1 \o SyncTick
                      \o [j \in 1..(Len(c.ids) \div 2) |-> <<"call", "start", c.ids[2 * j - 1]>>]
                      \o <<<<"log", "info", "spawned_walkers">>>>]

\* the outcomes the environment can produce for a batch of n items
Outcomes(n, kind) ==
    IF kind \in faults THEN [1..n -> BOOLEAN] ELSE {[i \in 1..n |-> TRUE]}

(***************************************************************************)
(* main() of scenario.py (lines 48-139), one step per statement group of   *)
(* the try block, then the finally block.                                  *)
(***************************************************************************)
TryRegion == {"start", "settings", "build", "vehicles", "walkers", "weather",
              "bind", "loop"}

MainFrame ==
    UNCHANGED <<args, n_external, faults, tick_no, hist_ok, weather_index,
                n_spawn_points>>

\* line 61
GetWorld ==
    /\ pc = "start"
    /\ pc' = "settings"
    /\ locals' = locals \cup {"world"}
    /\ out' = <<<<"call", "get_world", "">>>>
    /\ UNCHANGED <<counter, alt, vehicles_list, walkers_list, combined_walker_ids,
                   weather_type, time_of_day, current_weather, weather_objs,
                   wm_vehicles, world_vehicles, next_id, vehicle_state,
                   env_weather, destroyed, stopped, started, last_call,
                   teardown_runs>>
    /\ MainFrame

\* lines 62-63
SetGlobalSettings ==
    /\ pc = "settings"
    /\ pc' = "build"
    /\ locals' = locals \cup {"traffic_manager"}
    /\ out' = <<<<"call", "set_synchronous_mode", "on">>>>
    /\ UNCHANGED <<counter, alt, vehicles_list, walkers_list, combined_walker_ids,
                   weather_type, time_of_day, current_weather, weather_objs,
                   wm_vehicles, world_vehicles, next_id, vehicle_state,
                   env_weather, destroyed, stopped, started, last_call,
                   teardown_runs>>
    /\ MainFrame

(***************************************************************************)
(* TrafficGenerator.get_actor_blueprints (traffic.py 63-84).  bps is what   *)
(* the blueprint library returns for the filter, each blueprint written as *)
(* its generation attribute; generation is the command-line string.        *)
(***************************************************************************)
\* str.lower, int() and its ValueError on the strings used here
Lower(g) == IF g \in {"All", "ALL", "all"} THEN "all" ELSE g
IsIntLiteral(g) == g \in {"1", "2", "3", "4"}
IntOf(g) == CASE g = "1" -> 1 [] g = "2" -> 2 [] g = "3" -> 3 [] OTHER -> 4
ValidGenerations == {1, 2, 3}

\* what the library can return for a filter, and the generations a user
\* can ask for (the defaults are All for vehicles and 2 for walkers,
\* scenario.py 203-217)
FilterResults == {<<>>, <<1>>, <<1, 2>>}
Generations == {"All", "2", "4", "x"}

\* the variant that keeps every blueprint when the generation is not valid
get_actor_blueprintsKeepAll(bps, generation) ==
    IF Lower(generation) = "all" THEN [bps |-> bps, out |-> <<>>]
    ELSE IF Len(bps) = 1 THEN [bps |-> bps, out |-> <<>>]
    ELSE IF IsIntLiteral(generation) /\ IntOf(generation) \in ValidGenerations
    THEN [bps |-> SelectSeq(bps, LAMBDA x : x = IntOf(generation)), out |-> <<>>]
    ELSE [bps |-> bps, out |-> <<<<"log", "warning", "generation">>>>]

get_actor_blueprints(bps, generation) ==
    IF Lower(generation) = "all" THEN [bps |-> bps, out |-> <<>>]
    ELSE IF Len(bps) = 1 THEN [bps |-> bps, out |-> <<>>]
    ELSE IF IsIntLiteral(generation) /\ IntOf(generation) \in ValidGenerations
    THEN [bps |-> SelectSeq(bps, LAMBDA x : x = IntOf(generation)), out |-> <<>>]
    ELSE [bps |-> <<>>, out |-> <<<<"log", "warning", "generation">>>>]

\* TrafficGenerator.__init__, lines 36-41: the two look-ups, each recorded
\* with its inputs, and whether the constructor raised
BlueprintQuery(kind, bps, generation) ==
    <<"call", "get_actor_blueprints", kind, bps, generation>>

LoadBlueprints(vb, gv, wb, gw) ==
    LET v == get_actor_blueprints(vb, gv)
        w == get_actor_blueprints(wb, gw)
    IN  IF v.bps = <<>>
        THEN [raised |-> TRUE,
              out |-> <<BlueprintQuery("vehicle", vb, gv)>> \o v.out
                      \o <<<<"raise", "ValueError">>>>]
        ELSE IF w.bps = <<>>
        THEN [raised |-> TRUE,
              out |-> <<BlueprintQuery("vehicle", vb, gv)>> \o v.out
                      \o <<BlueprintQuery("walker", wb, gw)>> \o w.out
                      \o <<<<"raise", "ValueError">>>>]
        ELSE [raised |-> FALSE,
              out |-> <<BlueprintQuery("vehicle", vb, gv)>> \o v.out
                      \o <<BlueprintQuery("walker", wb, gw)>> \o w.out]

\* the look-up inputs the environment and the command line can produce
BlueprintInputs ==
    IF "blueprints" \in faults
    THEN FilterResults \X Generations \X FilterResults \X Generations
    ELSE {<<<<1, 2>>, "All", <<1, 2>>, "2">>}

\* lines 66-67: TrafficGenerator.__init__ raises ValueError when a filter
\* matches no blueprint (traffic.py 36-41); set_global_tm_settings finds the
\* registry empty
BuildGenerator ==
    /\ pc = "build"
    /\ \E q \in BlueprintInputs :
          LET r == LoadBlueprints(q[1], q[2], q[3], q[4])
          IN  IF ~r.raised
              THEN /\ pc' = "vehicles"
                   /\ locals' = locals \cup {"traffic_gen"}
                   /\ out' = r.out \o <<<<"call", "TrafficGenerator", "">>>>
              ELSE /\ pc' = "finally"
                   /\ locals' = locals
                   /\ out' = r.out
    /\ counter' = spawn_delay
    /\ alt' = FALSE
    /\ vehicles_list' = <<>>
    /\ walkers_list' = <<>>
    /\ combined_walker_ids' = <<>>
    /\ UNCHANGED <<weather_type, time_of_day, current_weather, weather_objs,
                   wm_vehicles, world_vehicles, next_id, vehicle_state,
                   env_weather, destroyed, stopped, started, last_call,
                   teardown_runs>>
    /\ MainFrame

\* traffic.py 154-161: the vehicles a spawn_vehicles batch r created
FreshVehicles(r) ==
    [v \in Range(r.ids) |->
        [NewVehicle EXCEPT !.autopilot = TRUE,
                           !.item = r.items[CHOOSE j \in 1..Len(r.ids) : r.ids[j] = v]]]

\* lines 68-92
SpawnVehiclesPhase ==
    /\ pc = "vehicles"
    /\ pc' = "walkers"
    /\ IF SpawnsVehicles(args)
       THEN \E outcomes \in Outcomes(VehicleBatchSize(args.number_of_vehicles,
                                                      n_spawn_points), "vehicle") :
              LET r == spawn_vehicles(args.number_of_vehicles, n_spawn_points,
                                      outcomes, next_id)
                  mask == ScenarioMask(args.scenario, args.aggression)
                  fresh == FreshVehicles(r) @@ vehicle_state
              IN  /\ vehicles_list' = vehicles_list \o r.ids
                  /\ world_vehicles' = world_vehicles \cup Range(r.ids)
                  /\ next_id' = next_id + Len(r.ids)
                  /\ IF mask = <<>>
                     THEN /\ vehicle_state' = fresh
                          /\ out' = r.out
                     ELSE \E tosses \in [1..Len(r.ids) -> Tosses] :
                            /\ vehicle_state' =
                                 set_aggressive_behavior_all(fresh, r.ids, mask[1], tosses)
                            /\ out' = r.out \o <<<<"call", "set_aggressive_behavior_all", "">>>>
       ELSE /\ out' = <<>>
            /\ UNCHANGED <<vehicles_list, world_vehicles, next_id, vehicle_state>>
    /\ UNCHANGED <<locals, counter, alt, walkers_list, combined_walker_ids,
                   weather_type, time_of_day, current_weather, weather_objs,
                   wm_vehicles, env_weather, destroyed, stopped, started,
                   last_call, teardown_runs>>
    /\ MainFrame

\* where main() goes on after spawn_walkers (lines 93-101), and the variant
\* that enters the loop at once
AfterWalkersSkipWeather(raised) == IF raised THEN "finally" ELSE "loop"

AfterWalkers(raised) == IF raised THEN "finally" ELSE "weather"

\* lines 93-98
SpawnWalkers ==
    /\ pc = "walkers"
    /\ \E nav \in Outcomes(args.number_of_walkers, "nav") :
       \E speed \in Outcomes(ResolvedLocations(args.number_of_walkers, nav), "speed") :
       \E body \in Outcomes(ResolvedLocations(args.number_of_walkers, nav), "body") :
       \E con \in Outcomes(Len(Succeeded(ResolvedLocations(args.number_of_walkers, nav), body)),
                           "controller") :
          LET r == spawn_walkers(args.number_of_walkers, nav, speed, body, con, next_id)
          IN  /\ walkers_list' = walkers_list \o r.walkers_list
              /\ combined_walker_ids' = combined_walker_ids \o r.combined
              /\ started' = started \o r.started
              /\ next_id' = r.next_id
              /\ out' = r.out
              /\ pc' = AfterWalkers(r.raised)
    /\ UNCHANGED <<locals, counter, alt, vehicles_list, weather_type, time_of_day,
                   current_weather, weather_objs, wm_vehicles, world_vehicles,
                   vehicle_state, env_weather, destroyed, stopped, last_call,
                   teardown_runs>>
    /\ MainFrame

\* str.upper on the values --weather and --time accept (scenario.py 184-193),
\* which are then looked up by name in WeatherType and TimeOfDay
WeatherArgs == {"clear", "foggy", "rainy"}
TimeArgs == {"noon", "night"}
Upper(x) ==
    CASE x = "clear" -> "CLEAR" [] x = "foggy" -> "FOGGY" [] x = "rainy" -> "RAINY"
      [] x = "noon" -> "NOON" [] x = "night" -> "NIGHT" [] OTHER -> x

\* lines 102-107: the preset main() asks for, and the variant in which the
\* night scenario forces the time of day only
EffectivePresetKeepsWeather(a) ==
    IF a.scenario = "night" THEN <<Upper(a.weather), "NIGHT">>
    ELSE <<Upper(a.weather), Upper(a.time)>>

EffectivePreset(a) ==
    IF a.scenario = "night" THEN <<"CLEAR", "NIGHT">>
    ELSE <<Upper(a.weather), Upper(a.time)>>

\* lines 101-108
InitWeatherManager ==
    /\ pc = "weather"
    /\ pc' = "bind"
    /\ LET seeded == SelectSeq(vehicles_list, LAMBDA v : v \in world_vehicles)
           preset == EffectivePreset(args)
           r1 == set_weather(WM, preset[1])
           r2 == set_time_of_day(r1.m, preset[2])
           r3 == apply_settings(r2.m, seeded, vehicle_state, env_weather)
       IN  /\ wm_vehicles' = seeded
           /\ SetWM(r2.m)
           /\ vehicle_state' = r3.vstate
           /\ env_weather' = r3.pushed
           /\ out' = r1.out \o r2.out \o r3.out
    /\ locals' = locals \cup {"weather_man"}
    /\ UNCHANGED <<counter, alt, vehicles_list, walkers_list, combined_walker_ids,
                   world_vehicles, next_id, destroyed, stopped, started,
                   last_call, teardown_runs>>
    /\ MainFrame

\* lines 110-113: the four local names are bound to the generator's lists
BindLists ==
    /\ pc = "bind"
    /\ pc' = "loop"
    /\ locals' = locals \cup {"lists"}
    /\ out' = <<>>
    /\ UNCHANGED <<counter, alt, vehicles_list, walkers_list, combined_walker_ids,
                   weather_type, time_of_day, current_weather, weather_objs,
                   wm_vehicles, world_vehicles, next_id, vehicle_state,
                   env_weather, destroyed, stopped, started, last_call,
                   teardown_runs>>
    /\ MainFrame

\* lines 115-120: one iteration of the tick loop
Tick ==
    /\ pc = "loop"
    /\ IF InjectsCongestion(args)
       THEN \E ok \in SpawnOutcomes :
            \E toss \in TossesFor(args.aggression /\ ok
                                   /\ CongestionReady(counter, LiveVehicleCount)) :
              AfterCongestionCall(spawn_congestion_vehicle(ok, toss),
                                  set_car_lights(weather_type, NewVehicle.lights))
       ELSE /\ out' = <<<<"call", "world.tick", "">>>>
            /\ UNCHANGED <<counter, alt, vehicles_list, world_vehicles, next_id,
                           vehicle_state, last_call>>
    /\ UNCHANGED <<pc, locals, walkers_list, combined_walker_ids, weather_type,
                   time_of_day, current_weather, weather_objs, wm_vehicles,
                   env_weather, destroyed, stopped, started, teardown_runs>>
    /\ MainFrame

\* An interrupt (or a failed remote call) ends the try block wherever it is.
Interrupt ==
    /\ pc \in TryRegion
    /\ pc' = "finally"
    /\ out' = <<<<"raise", "KeyboardInterrupt">>>>
    /\ UNCHANGED <<locals, counter, alt, vehicles_list, walkers_list,
                   combined_walker_ids, weather_type, time_of_day, current_weather,
                   weather_objs, wm_vehicles, world_vehicles, next_id,
                   vehicle_state, env_weather, destroyed, stopped, started,
                   last_call, teardown_runs>>
    /\ MainFrame

\* lines 55-58, 110-113: what the local names of main() refer to, and the
\* variant in which line 110 takes a copy of the list (empty at that point
\* in a congestion run)
LocalVehiclesListCopied ==
    IF "lists" \in locals /\ ~InjectsCongestion(args) THEN vehicles_list ELSE <<>>

LocalVehiclesList == IF "lists" \in locals THEN vehicles_list ELSE <<>>
LocalWalkersList == IF "lists" \in locals THEN walkers_list ELSE <<>>
LocalCombinedWalkerIds == IF "lists" \in locals THEN combined_walker_ids ELSE <<>>

\* line 133-134: the actors stop() is called on, and the variant that takes
\* the second id of each pair
StoppedControllersSecondOfPair(combined) ==
    {combined[2 * j] : j \in 1..(Len(combined) \div 2)}

StoppedControllers(combined) ==
    {combined[2 * j - 1] : j \in 1..((Len(combined) + 1) \div 2)}

\* lines 122-139: the finally block; line 123 reads the local name world
Teardown ==
    /\ pc = "finally"
    /\ teardown_runs' = teardown_runs + 1
    /\ IF "world" \in locals
       THEN /\ pc' = "done"
            /\ destroyed' = destroyed \cup Range(LocalVehiclesList)
                                      \cup Range(LocalCombinedWalkerIds)
            /\ stopped' = stopped \cup StoppedControllers(LocalCombinedWalkerIds)
            /\ world_vehicles' = world_vehicles \ Range(LocalVehiclesList)
            /\ out' = <<<<"call", "apply_settings", "async">>,
                        <<"log", "info", "destroying_vehicles">>,
                        <<"call", "apply_batch", LocalVehiclesList>>>>
                      \o [j \in 1..((Len(LocalCombinedWalkerIds) + 1) \div 2) |->
                            <<"call", "stop", LocalCombinedWalkerIds[2 * j - 1]>>]
                      \o <<<<"log", "info", "destroying_walkers">>,
                           <<"call", "apply_batch", LocalCombinedWalkerIds>>,
                           <<"call", "sleep", "">>>>
       ELSE /\ pc' = "crashed"
            /\ out' = <<<<"raise", "UnboundLocalError">>>>
            /\ UNCHANGED <<destroyed, stopped, world_vehicles>>
    /\ UNCHANGED <<locals, counter, alt, vehicles_list, walkers_list,
                   combined_walker_ids, weather_type, time_of_day, current_weather,
                   weather_objs, wm_vehicles, next_id, vehicle_state, env_weather,
                   started, last_call>>
    /\ MainFrame

InitMain(ArgSet, External, Faults) ==
    /\ InitFields
    /\ n_spawn_points = MapSpawnPoints
    /\ weather_objs = InitialWeatherObjs(LibraryPreset)
    /\ pc = "start"
    /\ args \in ArgSet
    /\ faults = Faults
    /\ n_external \in External

\* Runs with any scenario and flags and the default weather, in a world that
\* other clients have filled almost to the cap.
GeneralArgs ==
    {ArgsOf(sc, ag, cg, "clear", "noon", nv, nw) :
        sc \in Scenario, ag \in BOOLEAN, cg \in BOOLEAN,
        nv \in 0..MaxVehicles, nw \in 0..MaxWalkers}

Init == InitMain(GeneralArgs, {VehicleCap - 1}, FaultKinds)

NextProgram ==
    \/ GetWorld \/ SetGlobalSettings \/ BuildGenerator \/ SpawnVehiclesPhase
    \/ SpawnWalkers \/ InitWeatherManager \/ BindLists \/ Tick \/ Interrupt
    \/ Teardown

Next == NextProgram \/ ExternalJoin \/ ExternalLeave

Spec == Init /\ [][Next]_vars

\* The same runs in an environment in which no spawn ever fails.
InitReliable == InitMain(GeneralArgs, {VehicleCap - 1}, {})

SpecReliable == InitReliable /\ [][Next]_vars

\* Congestion runs in a world without other traffic, followed up to the cap.
CongestionArgs ==
    {ArgsOf("congestion", FALSE, FALSE, "clear", "noon", 0, 0),
     ArgsOf("default", FALSE, TRUE, "clear", "noon", MaxVehicles, 0)}

InitCongestion == InitMain(CongestionArgs, {0}, {"congestion"})

NextCongestion == Next \/ ActorRemoved

SpecCongestion == InitCongestion /\ [][NextCongestion]_vars

\* Runs with any scenario and any requested weather and time of day, in an
\* environment in which no spawn fails.
PresetArgs ==
    {ArgsOf(sc, FALSE, FALSE, w, t, nv, 0) :
        sc \in Scenario, w \in WeatherArgs, t \in TimeArgs, nv \in 0..MaxVehicles}

InitPreset == InitMain(PresetArgs, {0}, {})

SpecPreset == InitPreset /\ [][NextProgram]_vars

\* Runs with the default number of walkers, the controller batch being the
\* only thing that can fail.
InitWalkers ==
    InitMain({ArgsOf("default", FALSE, FALSE, "clear", "noon", 0, DefaultWalkers)},
             {0}, {"controller"})

SpecWalkers == InitWalkers /\ [][NextProgram]_vars

\* Runs with a few walkers in which body spawns may fail and blueprints may
\* lack the speed attribute.
InitRealign ==
    InitMain({ArgsOf("default", FALSE, FALSE, "clear", "noon", 0, WalkersRealigned)},
             {0}, {"body", "speed"})

SpecRealign == InitRealign /\ [][NextProgram]_vars

(***************************************************************************)
(* A TrafficGenerator driven on its own: spawn_congestion_vehicle is       *)
(* called once per tick, the environment deciding the live vehicle count   *)
(* and the outcome of every attempt.                                       *)
(***************************************************************************)
InitInjector ==
    /\ InitFields
    /\ n_spawn_points = MapSpawnPoints
    /\ weather_objs = InitialWeatherObjs(LibraryPreset)
    /\ pc = "injector"
    /\ args = DefaultArgs("congestion")
    /\ faults = {"congestion"}
    /\ n_external \in {0, VehicleCap - 1}

InjectorTick ==
    /\ pc = "injector"
    /\ tick_no < MaxTick
    /\ \E ok \in SpawnOutcomes :
       \E toss \in TossesFor(args.aggression /\ ok
                              /\ CongestionReady(counter, LiveVehicleCount)) :
          /\ AfterCongestionCall(spawn_congestion_vehicle(ok, toss), NewVehicle.lights)
          /\ hist_ok' = (hist_ok /\ LiveVehicleCount < VehicleCap
                         /\ (CongestionStep(counter, alt, LiveVehicleCount, ok).attempt => ok))
    /\ tick_no' = tick_no + 1
    /\ UNCHANGED <<pc, args, locals, walkers_list, combined_walker_ids,
                   weather_type, time_of_day, current_weather, weather_objs,
                   wm_vehicles, n_external, env_weather, faults, destroyed,
                   stopped, started, teardown_runs, weather_index,
                   n_spawn_points>>

NextInjector == InjectorTick \/ ExternalJoin \/ ExternalLeave \/ ActorRemoved

SpecInjector == InitInjector /\ [][NextInjector]_vars

\* The same injector driven without end by the tick loop (scenario.py
\* 115-120: `while True`), in a world that other clients keep at the cap or
\* one below it.  tick_no counts the calls modulo TickCycle.
InitInjectorLive ==
    /\ InitFields
    /\ n_spawn_points = MapSpawnPoints
    /\ weather_objs = InitialWeatherObjs(LibraryPreset)
    /\ pc = "injector"
    /\ args = DefaultArgs("congestion")
    /\ faults = {"congestion"}
    /\ n_external = VehicleCap - 1

InjectorTickLive ==
    /\ pc = "injector"
    /\ \E ok \in SpawnOutcomes :
       \E toss \in TossesFor(args.aggression /\ ok
                              /\ CongestionReady(counter, LiveVehicleCount)) :
          /\ AfterCongestionCall(spawn_congestion_vehicle(ok, toss), NewVehicle.lights)
          /\ hist_ok' = (hist_ok /\ LiveVehicleCount < VehicleCap
                         /\ (CongestionStep(counter, alt, LiveVehicleCount, ok).attempt => ok))
    /\ tick_no' = (tick_no + 1) % TickCycle
    /\ UNCHANGED <<pc, args, locals, walkers_list, combined_walker_ids,
                   weather_type, time_of_day, current_weather, weather_objs,
                   wm_vehicles, n_external, env_weather, faults, destroyed,
                   stopped, started, teardown_runs, weather_index,
                   n_spawn_points>>

NextInjectorLive == InjectorTickLive \/ ExternalJoin \/ ExternalLeave \/ ActorRemoved

SpecInjectorLive ==
    InitInjectorLive /\ [][NextInjectorLive]_vars /\ WF_vars(InjectorTickLive)

(***************************************************************************)
(* TrafficGenerator.spawn_vehicles called on its own, on a freshly built   *)
(* generator: any requested count around zero or around the number of      *)
(* spawn points of the map, the failed batch items lying among the first   *)
(* and the last FailWindow items.  The map has at least the MapSpawnPoints  *)
(* points that __init__ indexes (traffic.py 49-52).                        *)
(***************************************************************************)
RequestedCounts(P) == (0..MaxVehicles) \cup ((P - 1)..(P + MaxExcess))

WindowOutcomes(n) ==
    LET window == {i \in 1..n : i <= FailWindow \/ i > n - FailWindow}
    IN  {[i \in 1..n |-> i \notin F] : F \in SUBSET window}

InitSpawner ==
    /\ InitFields
    /\ weather_objs = InitialWeatherObjs(LibraryPreset)
    /\ pc = "spawner"
    /\ faults = {"vehicle"}
    /\ n_external = 0
    /\ n_spawn_points \in MapSpawnPoints..(MapSpawnPoints + MaxExtraPoints)
    /\ \E nv \in RequestedCounts(n_spawn_points) :
          args = ArgsOf("default", FALSE, FALSE, "clear", "noon", nv, 0)

SpawnerRun ==
    /\ pc = "spawner"
    /\ pc' = "spawned"
    /\ \E outcomes \in WindowOutcomes(VehicleBatchSize(args.number_of_vehicles,
                                                       n_spawn_points)) :
          LET r == spawn_vehicles(args.number_of_vehicles, n_spawn_points,
                                  outcomes, next_id)
          IN  /\ vehicles_list' = vehicles_list \o r.ids
              /\ world_vehicles' = world_vehicles \cup Range(r.ids)
              /\ next_id' = next_id + Len(r.ids)
              /\ vehicle_state' = FreshVehicles(r) @@ vehicle_state
              /\ out' = r.out
    /\ UNCHANGED <<locals, counter, alt, walkers_list, combined_walker_ids,
                   weather_type, time_of_day, current_weather, weather_objs,
                   wm_vehicles, env_weather, destroyed, stopped, started,
                   last_call, teardown_runs>>
    /\ MainFrame

SpecSpawner == InitSpawner /\ [][SpawnerRun]_vars

(***************************************************************************)
(* TrafficGenerator.set_aggressive_behavior called on its own on one        *)
(* spawned vehicle, with any enable flags and any coin tosses (traffic.py  *)
(* 165-185).                                                               *)
(***************************************************************************)
InitBehavior ==
    /\ locals = {}
    /\ counter = spawn_delay
    /\ alt = FALSE
    /\ vehicles_list = <<1>>
    /\ walkers_list = <<>>
    /\ combined_walker_ids = <<>>
    /\ weather_type = None
    /\ time_of_day = None
    /\ current_weather = None
    /\ weather_index = 0
    /\ wm_vehicles = <<>>
    /\ world_vehicles = {1}
    /\ next_id = 2
    /\ vehicle_state = (1 :> [NewVehicle EXCEPT !.autopilot = TRUE])
    /\ env_weather = <<>>
    /\ destroyed = {}
    /\ stopped = {}
    /\ started = <<>>
    /\ out = <<>>
    /\ last_call = NoCall
    /\ tick_no = 0
    /\ hist_ok = TRUE
    /\ teardown_runs = 0
    /\ n_spawn_points = MapSpawnPoints
    /\ weather_objs = InitialWeatherObjs(LibraryPreset)
    /\ pc = "behavior"
    /\ args = DefaultArgs("default")
    /\ faults = {}
    /\ n_external = 0

BehaviorCall ==
    /\ pc = "behavior"
    /\ tick_no < MaxBehaviorCalls
    /\ tick_no' = tick_no + 1
    /\ \E en \in EnableMask : \E toss \in Tosses :
          /\ vehicle_state' = (1 :> set_aggressive_behavior(vehicle_state[1], en, toss))
          /\ out' = AggressionLog(en, toss)
    /\ UNCHANGED <<pc, args, locals, counter, alt, vehicles_list, walkers_list,
                   combined_walker_ids, weather_type, time_of_day, current_weather,
                   weather_objs, wm_vehicles, world_vehicles, n_external, next_id,
                   env_weather, faults, destroyed, stopped, started, last_call,
                   hist_ok, teardown_runs, weather_index, n_spawn_points>>

SpecBehavior == InitBehavior /\ [][BehaviorCall]_vars

(***************************************************************************)
(* A WeatherManager driven by a client on its own: the driving client      *)
(* (manual_control.py 85-89, 127-134) builds it over the vehicles present  *)
(* in the world and cycles through WEATHER_PRESETS; any other caller may   *)
(* call the three methods in any order.                                    *)
(***************************************************************************)
InitWeather ==
    /\ InitFields
    /\ n_spawn_points = MapSpawnPoints
    /\ pc = "wm_client"
    /\ args = DefaultArgs("default")
    /\ faults = {}
    /\ n_external = 0
    /\ weather_objs = InitialWeatherObjs(LibraryPreset)

\* The vehicles the manager was built over: none, or one with some lights on.
SeedVehicle ==
    /\ pc = "wm_client"
    /\ wm_vehicles = <<>> /\ next_id = 1 /\ out = <<>>
    /\ \E mask \in {{}, {"Brake"}, {"LowBeam", "Position"}} :
          vehicle_state' = (next_id :> [NewVehicle EXCEPT !.lights = mask])
    /\ world_vehicles' = {next_id}
    /\ wm_vehicles' = <<next_id>>
    /\ next_id' = next_id + 1
    /\ UNCHANGED <<pc, args, locals, counter, alt, vehicles_list, walkers_list,
                   combined_walker_ids, weather_type, time_of_day, current_weather,
                   weather_objs, n_external, env_weather, faults, destroyed,
                   stopped, started, out, last_call, tick_no, hist_ok,
                   teardown_runs, weather_index, n_spawn_points>>

WeatherFrame ==
    UNCHANGED <<pc, args, locals, counter, alt, vehicles_list, walkers_list,
                combined_walker_ids, wm_vehicles, world_vehicles, n_external,
                next_id, faults, destroyed, stopped, started, last_call,
                tick_no, hist_ok, teardown_runs, n_spawn_points>>

FogBounded(m) ==
    \A w \in WeatherType :
        m.objs[w].fog_density <= FoggyDensity + MaxNightFog * NightFogOffset

ClientSetWeather ==
    /\ pc = "wm_client"
    /\ \E wt \in WeatherInputs :
          LET r == set_weather(WM, wt)
          IN  /\ SetWM(r.m)
              /\ out' = r.out
    /\ UNCHANGED <<vehicle_state, env_weather, weather_index>>
    /\ WeatherFrame

ClientSetTimeOfDay ==
    /\ pc = "wm_client"
    /\ \E t \in TimeInputs :
          LET r == set_time_of_day(WM, t)
          IN  /\ FogBounded(r.m)
              /\ SetWM(r.m)
              /\ out' = r.out
    /\ UNCHANGED <<vehicle_state, env_weather, weather_index>>
    /\ WeatherFrame

ClientApply ==
    /\ pc = "wm_client"
    /\ LET r == apply_settings(WM, wm_vehicles, vehicle_state, env_weather)
       IN  /\ vehicle_state' = r.vstate
           /\ env_weather' = r.pushed
           /\ out' = r.out
    /\ UNCHANGED <<weather_type, time_of_day, current_weather, weather_objs,
                   weather_index>>
    /\ WeatherFrame

\* World.next_weather (manual_control.py 127-134)
NextWeatherIndex(i) == (i + 1) % Len(WEATHER_PRESETS)

next_weather ==
    /\ pc = "wm_client"
    /\ LET i == NextWeatherIndex(weather_index)
           preset == WEATHER_PRESETS[i + 1]
           r1 == set_weather(WM, preset[1])
           r2 == set_time_of_day(r1.m, preset[2])
           r3 == apply_settings(r2.m, wm_vehicles, vehicle_state, env_weather)
       IN  /\ FogBounded(r2.m)
           /\ weather_index' = i
           /\ SetWM(r2.m)
           /\ vehicle_state' = r3.vstate
           /\ env_weather' = r3.pushed
           /\ out' = r1.out \o r2.out \o r3.out
    /\ WeatherFrame

NextWeather ==
    SeedVehicle \/ ClientSetWeather \/ ClientSetTimeOfDay \/ ClientApply

SpecWeather == InitWeather /\ [][NextWeather]_vars

\* The driving client, which only cycles through the presets.
NextDriving == SeedVehicle \/ next_weather

SpecDriving == InitWeather /\ [][NextDriving]_vars

\* A client that cycles through the presets and re-applies the settings in
\* between (as main() does for every injected vehicle).
NextLights == SeedVehicle \/ next_weather \/ ClientApply

SpecLights == InitWeather /\ [][NextLights]_vars

\* Every program of the repository that produces log lines for recovered
\* failures: main() and the callers of a WeatherManager.
InitLogging == Init \/ InitWeather

NextLogging == Next \/ NextWeather

SpecLogging == InitLogging /\ [][NextLogging]_vars

(***************************************************************************)
(* Properties of the congestion injector                                   *)
(***************************************************************************)

\* C1: with the counter starting at 20, the live count always below the cap
\* and every attempt succeeding, a call spawns a vehicle exactly on ticks
\* 1, 21, 41, ... and on no other tick.
ClaimC1_SpawnTicks ==
    (pc = "injector" /\ hist_ok /\ last_call.called)
        => ((last_call.ret # <<>>) <=> (tick_no % spawn_delay = 1))

\* C5: any two consecutive successful spawns use opposite values of alt, and
\* every successful spawn uses the spawn point and the route of the same alt
\* value: 32 with route_1 when alt is true, 149 with route_2 when it is false.
IsAltPair(st, a) ==
    /\ st.spawn_point = <<IF a THEN SpawnPointAlt ELSE SpawnPointNotAlt>>
    /\ st.path = IF a THEN route_1_indices ELSE route_2_indices

C5_Alternation ==
    pc = "injector" =>
        /\ last_call.ret # <<>> =>
              IsAltPair(vehicle_state[last_call.ret[1]], last_call.a)
        /\ \A i \in 1..Len(vehicles_list) :
              LET st == vehicle_state[vehicles_list[i]]
              IN  /\ IsAltPair(st, TRUE) \/ IsAltPair(st, FALSE)
                  /\ i > 1 => st.spawn_point #
                                vehicle_state[vehicles_list[i - 1]].spawn_point

\* Two consecutive successful spawns more than spawn_delay calls apart: the
\* calls in between spawned nothing (waiting, at-cap or failed attempts).
C5_Witness ==
    /\ pc = "injector"
    /\ last_call.ret # <<>>
    /\ Len(vehicles_list) >= 2
    /\ LET n == Len(vehicles_list)
       IN  vehicle_state[vehicles_list[n]].born
             > vehicle_state[vehicles_list[n - 1]].born + spawn_delay

\* C7: the congestion counter is never negative, whatever the live vehicle
\* count and the spawn outcomes are.
C7_CounterNonNegative == counter >= 0

\* A call made at counter 0 with the live count at the cap: the decrement of
\* line 116 is the one that is floored.
C7_Witness ==
    /\ pc = "injector"
    /\ last_call.called /\ last_call.c = 0 /\ ~last_call.attempt
    /\ last_call.n >= VehicleCap
    /\ counter = 0

(***************************************************************************)
(* Properties of the WeatherManager                                        *)
(***************************************************************************)
ComposedFog == weather_objs[current_weather].fog_density

\* C4: on one WeatherManager, whatever calls were made before, after
\* set_weather(FOGGY) followed by set_time_of_day(NOON) the composed fog
\* density is 40.0, and after set_weather(FOGGY) followed by
\* set_time_of_day(NIGHT) it is 60.0 (e.g. when the driving client cycles
\* through all weather presets).
JustSet(wt, t) ==
    /\ Len(out) >= 2
    /\ out[1] = <<"enter", "set_weather", wt>>
    /\ out[2] = <<"enter", "set_time_of_day", t>>

ClaimC4_FogDensity ==
    /\ JustSet("FOGGY", "NOON") => ComposedFog = FoggyDensity
    /\ JustSet("FOGGY", "NIGHT") => ComposedFog = FoggyDensity + NightFogOffset

(***************************************************************************)
(* Properties of main(): teardown                                          *)
(***************************************************************************)
Ended == pc \in {"done", "crashed"}

\* the ids the TrafficGenerator has registered
RegisteredVehicles == Range(vehicles_list)
RegisteredBodies == {walkers_list[i].id : i \in 1..Len(walkers_list)}
RegisteredControllers ==
    {walkers_list[i].con : i \in {j \in 1..Len(walkers_list) : "con" \in DOMAIN walkers_list[j]}}

\* C2: however a run of main() ends (an interrupt during the tick loop, an
\* exception or interrupt during startup after some actors were spawned),
\* the teardown block runs exactly once and submits a destroy command for
\* every vehicle id and every pedestrian/controller id that the
\* TrafficGenerator has registered.
ClaimC2_TeardownDestroysAll ==
    /\ teardown_runs <= 1
    /\ Ended => /\ teardown_runs = 1
                /\ RegisteredVehicles \subseteq destroyed
                /\ RegisteredBodies \subseteq destroyed
                /\ RegisteredControllers \subseteq destroyed

\* C3: when 3 of 10 requested pedestrian controllers fail to spawn (all 10
\* bodies spawn), the run reaches teardown without any error being raised,
\* and teardown destroys exactly 10 bodies and 7 controllers.
ThreeOfTenControllersFailed ==
    /\ args.number_of_walkers = DefaultWalkers
    /\ Cardinality(RegisteredBodies) = DefaultWalkers
    /\ Cardinality(RegisteredControllers) = DefaultWalkers - 3

ClaimC3_UnpairedBodies ==
    ThreeOfTenControllersFailed =>
        /\ <<"raise", "KeyError">> \notin Range(out)
        /\ Ended => /\ pc = "done"
                    /\ Cardinality(destroyed \cap RegisteredBodies) = DefaultWalkers
                    /\ Cardinality(destroyed \cap RegisteredControllers) = DefaultWalkers - 3

(***************************************************************************)
(* Properties of main(): congestion runs                                   *)
(***************************************************************************)
AllTrackedLive == RegisteredVehicles \subseteq world_vehicles

\* C6: in a congestion run the vehicle spawn phase is skipped, the vehicle
\* registry is empty when the tick loop starts, it changes only by
\* appending the id of a successfully injected vehicle, and it never holds
\* more than 200 ids as long as every tracked vehicle is still live.
C6_RegistryState ==
    InjectsCongestion(args) =>
        /\ pc \in {"start", "settings", "build", "vehicles", "walkers", "weather", "bind"}
              => vehicles_list = <<>>
        /\ AllTrackedLive => Len(vehicles_list) <= VehicleCap

C6_RegistryStep ==
    (InjectsCongestion(args) /\ vehicles_list' # vehicles_list) =>
        /\ pc = "loop" /\ pc' = "loop"
        /\ last_call'.ret # <<>>
        /\ last_call'.ret[1] \in world_vehicles' \ world_vehicles
        /\ vehicles_list' = Append(vehicles_list, last_call'.ret[1])

C6_CongestionRegistry == [](C6_RegistryState) /\ [][C6_RegistryStep]_vars

\* The registry of a congestion run filled up to the cap, every tracked
\* vehicle live.
C6_Witness ==
    /\ InjectsCongestion(args)
    /\ pc = "loop"
    /\ Len(vehicles_list) = VehicleCap
    /\ AllTrackedLive
    /\ last_call.called /\ ~last_call.attempt /\ last_call.c = 0

(***************************************************************************)
(* Properties of main(): log lines                                         *)
(***************************************************************************)
Count(seq, e) == Cardinality({i \in 1..Len(seq) : seq[i] = e})

LoggedOnce(kind) == Count(out, <<"log", "error", kind>>) = Count(out, <<"fail", kind>>)

\* C8: every recovered failure (a failed item of the vehicle batch, of the
\* pedestrian-body batch or of the controller batch, a navigable location
\* that fails to resolve, a failed congestion spawn attempt, a time-of-day
\* set before the weather) produces exactly one log line; no failure is
\* dropped without a log line.
ClaimC8_EveryFailureLogged ==
    \A kind \in {"vehicle", "body", "controller", "nav", "congestion",
                 "time_before_weather"} : LoggedOnce(kind)

\* C8 as amended: failed batch items (vehicles, bodies, controllers) and a
\* time-of-day set before the weather produce exactly one log line each; a
\* location that fails to resolve and a failed congestion spawn attempt
\* produce none.
C8_LoggedFailures ==
    /\ \A kind \in {"vehicle", "body", "controller", "time_before_weather"} :
          LoggedOnce(kind)
    /\ \A kind \in {"nav", "congestion"} : Count(out, <<"log", "error", kind>>) = 0

\* A step in which a batch item failed.
C8_Witness ==
    /\ Count(out, <<"fail", "controller">>) = 1
    /\ Count(out, <<"log", "error", "controller">>) = 1

(***************************************************************************)
(* Properties of main(): behaviour masks                                   *)
(***************************************************************************)
NoLaneChange(v) == vehicle_state[v].lane = "none"
NoIgnoreLights(v) == vehicle_state[v].ignore_lights = 0
NoIgnoreSigns(v) == vehicle_state[v].ignore_signs = 0
NoOverspeed(v) == vehicle_state[v].speed_diff = 0

\* C9: in the overspeeding scenario without the aggression override, the
\* behaviour mask is overspeed only: no vehicle can receive a forced lane
\* change, ignore-lights or ignore-signs; the only effect a vehicle may
\* receive is the -20% speed differential.
ClaimC9_OverspeedOnly ==
    (pc # "wm_client" /\ args.scenario = "overspeeding" /\ ~args.aggression) =>
        \A v \in DOMAIN vehicle_state :
            /\ NoLaneChange(v) /\ NoIgnoreLights(v) /\ NoIgnoreSigns(v)
            /\ vehicle_state[v].speed_diff \in {0, SPEED_DIFF_PERCENT}

\* C9 as amended: the mask is lane change and overspeed: no vehicle can
\* receive ignore-lights or ignore-signs; the effects a vehicle may receive
\* are a forced lane change and the -20% speed differential.
C9_OverspeedingMask ==
    (pc # "wm_client" /\ args.scenario = "overspeeding" /\ ~args.aggression) =>
        \A v \in DOMAIN vehicle_state :
            /\ NoIgnoreLights(v) /\ NoIgnoreSigns(v)
            /\ vehicle_state[v].speed_diff \in {0, SPEED_DIFF_PERCENT}

\* A vehicle of an overspeeding run that got both effects.
C9_Witness ==
    /\ pc # "wm_client" /\ args.scenario = "overspeeding" /\ ~args.aggression
    /\ \E v \in DOMAIN vehicle_state :
          ~NoLaneChange(v) /\ vehicle_state[v].speed_diff = SPEED_DIFF_PERCENT

\* C10: without the aggression override, the default, night and congestion
\* scenarios apply no behaviour trait to any vehicle, and the distracted
\* scenario can apply only ignore-lights and ignore-signs.
C10_OtherMasks ==
    (pc # "wm_client" /\ ~args.aggression) =>
        \A v \in DOMAIN vehicle_state :
            /\ args.scenario \in {"default", "night", "congestion"} =>
                  NoLaneChange(v) /\ NoIgnoreLights(v) /\ NoIgnoreSigns(v) /\ NoOverspeed(v)
            /\ args.scenario = "distracted" => NoLaneChange(v) /\ NoOverspeed(v)

\* A vehicle of a distracted run that ignores lights and signs.
C10_Witness ==
    /\ pc # "wm_client" /\ ~args.aggression /\ args.scenario = "distracted"
    /\ \E v \in DOMAIN vehicle_state : ~NoIgnoreLights(v) /\ ~NoIgnoreSigns(v)

\* C11: when the aggression override is requested, all four traits are
\* enabled for every vehicle in place of the scenario's own mask, for every
\* scenario, including vehicles injected by congestion: every vehicle of the
\* registry has had set_aggressive_behavior called on it with the four
\* enable flags true, and carries no effect other than those four.
C11_AggressionOverride ==
    (pc # "wm_client" /\ args.aggression) =>
        \A v \in DOMAIN vehicle_state :
            /\ vehicle_state[v].enabled = <<Mask(TRUE, TRUE, TRUE, TRUE)>>
            /\ vehicle_state[v].lane \in {"none", "forced_true", "forced_false"}
            /\ vehicle_state[v].ignore_lights \in {0, IGNORE_LIGHTS_PERCENT}
            /\ vehicle_state[v].ignore_signs \in {0, IGNORE_SIGNS_PERCENT}
            /\ vehicle_state[v].speed_diff \in {0, SPEED_DIFF_PERCENT}

\* A distracted run under the override whose vehicle got the two effects
\* the distracted mask leaves out.
C11_Witness ==
    /\ pc # "wm_client" /\ args.aggression /\ args.scenario = "distracted"
    /\ \E v \in DOMAIN vehicle_state :
          /\ vehicle_state[v].lane = "forced_true"
          /\ vehicle_state[v].speed_diff = SPEED_DIFF_PERCENT

(***************************************************************************)
(* Properties of spawn_vehicles                                            *)
(***************************************************************************)
\* C12: spawn_vehicles with requested count N and P spawn points: if N > P
\* it logs a warning and raises no error; it submits min(N, P) spawn
\* commands in one batch, never retries a failed item, and the registry
\* ends with exactly min(N, P) minus the number of failed batch items (so at
\* most min(N, P)), in submission order.
C12_SpawnVehicles ==
    pc = "spawned" =>
        LET N == args.number_of_vehicles
            P == n_spawn_points
            failed == Count(out, <<"fail", "vehicle">>)
        IN  /\ N > P => <<"log", "warning", "spawn_points">> \in Range(out)
            /\ \A i \in 1..Len(out) : out[i][1] # "raise"
            /\ Count(out, <<"call", "apply_batch_sync", "vehicles">>) = 1
            /\ Len(vehicles_list) = Min(N, P) - failed
            /\ Len(vehicles_list) <= Min(N, P)
            /\ \A i \in 1..Len(vehicles_list) :
                  /\ vehicle_state[vehicles_list[i]].item \in 1..Min(N, P)
                  /\ i > 1 => vehicle_state[vehicles_list[i - 1]].item
                                 < vehicle_state[vehicles_list[i]].item

\* More vehicles requested than the map has spawn points, the first item
\* and a later one failed.
C12_Witness ==
    /\ pc = "spawned"
    /\ args.number_of_vehicles > n_spawn_points
    /\ Len(vehicles_list) = n_spawn_points - 2
    /\ vehicle_state[vehicles_list[1]].item = 2
    /\ vehicle_state[vehicles_list[Len(vehicles_list)]].item = n_spawn_points - 1

(***************************************************************************)
(* Properties of spawn_walkers                                             *)
(***************************************************************************)
\* the step just taken was a spawn_walkers call
AfterSpawnWalkers == <<"call", "apply_batch_sync", "controllers">> \in Range(out)

\* C13: after spawn_walkers, for any pattern of body and controller spawn
\* failures: every entry of the pedestrian registry has a body id, the
\* number of entries with a controller id equals the number of successful
\* controller spawns, and the combined id list contains every body id and
\* every controller id exactly once.
ClaimC13_WalkerRegistry ==
    AfterSpawnWalkers =>
        /\ \A i \in 1..Len(walkers_list) : "id" \in DOMAIN walkers_list[i]
        /\ Cardinality({i \in 1..Len(walkers_list) : "con" \in DOMAIN walkers_list[i]})
              = Len(walkers_list) - Count(out, <<"fail", "controller">>)
        /\ Range(combined_walker_ids) = RegisteredBodies \cup RegisteredControllers
        /\ Len(combined_walker_ids) = Cardinality(Range(combined_walker_ids))

(***************************************************************************)
(* Properties of the WeatherManager: calls out of order                    *)
(***************************************************************************)
\* the step is a call of the given WeatherManager method
Entered(method) == Len(out') >= 1 /\ out'[1][1] = "enter" /\ out'[1][2] = method

\* C14: set_time_of_day called on a WeatherManager on which set_weather was
\* never called logs an error, does not raise, and leaves weather type,
\* time of day and composed parameters unset.
C14_TimeBeforeWeatherStep ==
    (pc = "wm_client" /\ weather_type = None /\ Entered("set_time_of_day")) =>
        /\ <<"log", "error", "time_before_weather">> \in Range(out')
        /\ \A i \in 1..Len(out') : out'[i][1] # "raise"
        /\ weather_type' = None /\ time_of_day' = None /\ current_weather' = None
        /\ UNCHANGED <<weather_objs, env_weather>>

C14_TimeBeforeWeather == [][C14_TimeBeforeWeatherStep]_vars

\* set_time_of_day(NIGHT) was just called on a manager whose weather was
\* never set.
C14_Witness ==
    /\ pc = "wm_client" /\ weather_type = None
    /\ Len(out) >= 1 /\ out[1] = <<"enter", "set_time_of_day", "NIGHT">>

(***************************************************************************)
(* Properties of the WeatherManager: vehicle lights                        *)
(***************************************************************************)
\* the step calls apply_settings
AppliesSettings == <<"enter", "apply_settings", "">> \in Range(out')

\* C15: apply_settings only ever adds light bits: for every tracked vehicle
\* the new light mask is the old mask ORed with fog+low-beam under foggy
\* weather, with low-beam under rainy weather, and with nothing under clear
\* or cloudy weather; no bit already set on a vehicle is ever cleared, also
\* across later weather changes.
C15_LightsStep ==
    pc = "wm_client" =>
        /\ \A v \in DOMAIN vehicle_state :
              vehicle_state[v].lights \subseteq vehicle_state'[v].lights
        /\ AppliesSettings =>
              \A i \in 1..Len(wm_vehicles) :
                  LET old == vehicle_state[wm_vehicles[i]].lights
                      new == vehicle_state'[wm_vehicles[i]].lights
                  IN  /\ weather_type' = "FOGGY" => new = old \cup {"Fog", "LowBeam"}
                      /\ weather_type' = "RAINY" => new = old \cup {"LowBeam"}
                      /\ weather_type' \in {"CLEAR", "CLOUDY"} => new = old

C15_LightsOnlyAdded == [][C15_LightsStep]_vars

\* A vehicle that had its brake light on when the manager was built, after
\* rainy weather was applied and then cloudy weather.
C15_Witness ==
    /\ pc = "wm_client" /\ weather_type = "CLOUDY" /\ time_of_day = "NIGHT"
    /\ <<"enter", "apply_settings", "">> \in Range(out)
    /\ Len(wm_vehicles) = 1
    /\ vehicle_state[wm_vehicles[1]].lights = {"Brake", "Fog", "LowBeam"}

\* C16: once weather and time of day are set, calling apply_settings twice
\* in a row leaves every tracked vehicle's light mask and the parameters
\* pushed to the environment exactly as calling it once does.
C16_ApplyTwiceStep ==
    (/\ pc = "wm_client"
     /\ weather_type \in WeatherType /\ time_of_day \in TimeOfDay
     /\ <<"enter", "apply_settings", "">> \in Range(out)
     /\ Entered("apply_settings"))
        => /\ vehicle_state' = vehicle_state
           /\ env_weather' = env_weather
           /\ \A i \in 1..Len(out') : out'[i][1] # "raise"

C16_ApplyIdempotent == [][C16_ApplyTwiceStep]_vars

\* apply_settings called a second time in a row under foggy night weather on
\* a vehicle that already had lights on.
C16_Witness ==
    /\ pc = "wm_client" /\ weather_type = "FOGGY" /\ time_of_day = "NIGHT"
    /\ Len(out) >= 1 /\ out[1] = <<"enter", "apply_settings", "">>
    /\ Len(wm_vehicles) = 1
    /\ vehicle_state[wm_vehicles[1]].lights = {"Fog", "LowBeam", "Position"}
    /\ env_weather = <<weather_objs["FOGGY"]>>

(***************************************************************************)
(* Properties of main(): building the TrafficGenerator                     *)
(***************************************************************************)
\* the blueprint look-ups made by the step
Queries == {i \in 1..Len(out') : Len(out'[i]) = 5 /\ out'[i][2] = "get_actor_blueprints"}

InvalidGeneration(g) ==
    Lower(g) # "all" /\ ~(IsIntLiteral(g) /\ IntOf(g) \in ValidGenerations)

\* the constructor raised and nothing was spawned
BuildRaised ==
    /\ pc' = "finally"
    /\ <<"raise", "ValueError">> \in Range(out')
    /\ "traffic_gen" \notin locals'
    /\ \A i \in 1..Len(out') : out'[i][2] # "apply_batch_sync"
    /\ UNCHANGED <<next_id, world_vehicles, vehicle_state, started>>
    /\ vehicles_list' = <<>> /\ walkers_list' = <<>> /\ combined_walker_ids' = <<>>

\* as long as no TrafficGenerator was built nothing is spawned, and the
\* teardown destroys nothing
NothingWithoutGenerator ==
    (pc \in TryRegion \cup {"finally", "done", "crashed"} /\ "traffic_gen" \notin locals) =>
        /\ next_id = 1 /\ world_vehicles = {} /\ vehicles_list = <<>>
        /\ walkers_list = <<>> /\ combined_walker_ids = <<>>
        /\ destroyed = {} /\ stopped = {}
        /\ pc = "done" => /\ teardown_runs = 1
                          /\ <<"call", "apply_batch", <<>>>> \in Range(out)

\* C17: if no blueprint matches the vehicle filter or the walker filter
\* (including an invalid generation constraint), building the
\* TrafficGenerator raises before any spawn command is issued, and the
\* teardown that follows destroys nothing.
ClaimC17_NoBlueprintsStep ==
    (pc = "build" /\ \E i \in Queries :
                        out'[i][4] = <<>> \/ InvalidGeneration(out'[i][5]))
        => BuildRaised

ClaimC17_NoBlueprints == [](NothingWithoutGenerator) /\ [][ClaimC17_NoBlueprintsStep]_vars

\* C17 as amended: if a filter matches no blueprint, or the generation
\* constraint is invalid and the filter does not match exactly one
\* blueprint, building the TrafficGenerator raises before any spawn command
\* is issued, and the teardown that follows destroys nothing; when the
\* filter matches exactly one blueprint the generation constraint is
\* ignored.
C17_NoBlueprintsStep ==
    (pc = "build" /\ \E i \in Queries :
                        \/ out'[i][4] = <<>>
                        \/ InvalidGeneration(out'[i][5]) /\ Len(out'[i][4]) # 1)
        => BuildRaised

C17_NoBlueprints == [](NothingWithoutGenerator) /\ [][C17_NoBlueprintsStep]_vars

\* The constructor raised on the walker look-up, its generation constraint
\* being no number.
C17_Witness ==
    /\ pc = "finally"
    /\ \E i \in 1..Len(out) : out[i] = BlueprintQuery("walker", <<1, 2>>, "x")
    /\ out[Len(out)] = <<"raise", "ValueError">>

(***************************************************************************)
(* Properties of main(): order of the startup steps                        *)
(***************************************************************************)
\* the step makes the named call; position of the call among its events
Calls(name, detail) == <<"call", name, detail>> \in Range(out')
CallIndex(name, detail) == CHOOSE i \in 1..Len(out') : out'[i] = <<"call", name, detail>>

NothingSpawnedYet == next_id = 1 /\ vehicles_list = <<>> /\ walkers_list = <<>>
WeatherNotYetApplied ==
    weather_type = None /\ env_weather = <<>> /\ "weather_man" \notin locals
InjectorNotYetCalled == last_call = NoCall

\* the positions main() can go through, in order
StartupOrder ==
    {<<"start", "settings">>, <<"settings", "build">>, <<"build", "vehicles">>,
     <<"vehicles", "walkers">>, <<"walkers", "weather">>, <<"weather", "bind">>,
     <<"bind", "loop">>}

\* C18: in every run the startup steps happen in this order, none starting
\* before the previous one finished: synchronous stepping configured,
\* spawner built, vehicles spawned (when not a congestion run), behaviour
\* mask applied, pedestrians spawned, weather preset applied, first tick of
\* the loop; the congestion injector is never called before the weather
\* preset has been applied.
C18_StartupOrderStep ==
    pc \in TryRegion =>
        /\ pc' # pc => <<pc, pc'>> \in StartupOrder \/ pc' = "finally"
        /\ Calls("set_synchronous_mode", "on") =>
              /\ "traffic_gen" \notin locals
              /\ NothingSpawnedYet /\ WeatherNotYetApplied /\ InjectorNotYetCalled
        /\ Calls("TrafficGenerator", "") =>
              /\ "traffic_manager" \in locals
              /\ NothingSpawnedYet /\ WeatherNotYetApplied /\ InjectorNotYetCalled
        /\ Calls("apply_batch_sync", "vehicles") =>
              /\ "traffic_gen" \in locals /\ ~InjectsCongestion(args)
              /\ NothingSpawnedYet /\ WeatherNotYetApplied /\ InjectorNotYetCalled
        /\ Calls("set_aggressive_behavior_all", "") =>
              /\ Calls("apply_batch_sync", "vehicles")
              /\ CallIndex("apply_batch_sync", "vehicles")
                    < CallIndex("set_aggressive_behavior_all", "")
        /\ Calls("apply_batch_sync", "bodies") =>
              /\ "traffic_gen" \in locals
              /\ pc = "walkers" /\ walkers_list = <<>>
              /\ \A i \in 1..Len(out') : out'[i][2] # "set_aggressive_behavior_all"
              /\ WeatherNotYetApplied /\ InjectorNotYetCalled
        /\ AppliesSettings =>
              /\ pc = "weather" /\ pc' = "bind"
              /\ WeatherNotYetApplied /\ InjectorNotYetCalled
              /\ \A i \in 1..Len(out') : out'[i][2] # "apply_batch_sync"
        /\ (pc = "loop" /\ pc' = "loop" /\ (Calls("world.tick", "") \/ last_call'.called)) =>
              /\ {"traffic_manager", "traffic_gen", "weather_man"} \subseteq locals
              /\ weather_type # None /\ env_weather # <<>>
        /\ last_call'.called => pc = "loop" /\ weather_type # None /\ env_weather # <<>>

C18_StartupOrder == [][C18_StartupOrderStep]_vars

\* The first injector call of a congestion run in which pedestrians were
\* spawned and the weather applied.
C18_Witness ==
    /\ pc = "loop" /\ InjectsCongestion(args)
    /\ last_call.called /\ counter = spawn_delay - 1
    /\ walkers_list # <<>>
    /\ env_weather # <<>>

(***************************************************************************)
(* Properties of main(): the weather preset                                *)
(***************************************************************************)
\* the weather type and time of day a command-line value names
NamedBy(x) ==
    CHOOSE y \in WeatherType \cup TimeOfDay :
        <<x, y>> \in {<<"clear", "CLEAR">>, <<"foggy", "FOGGY">>, <<"rainy", "RAINY">>,
                      <<"noon", "NOON">>, <<"night", "NIGHT">>}

\* what the environment was last told to show
AppliedIs(wt, t) ==
    /\ weather_type = wt /\ time_of_day = t
    /\ env_weather = <<weather_objs[wt]>>
    /\ env_weather[1].sun_altitude_angle = IF t = "NIGHT" THEN -90 ELSE 90
    /\ (env_weather[1].fog_density > 0) = (wt = "FOGGY")

\* C19: in the night scenario the applied weather is clear with time of day
\* night, whatever weather and time were requested; in every other scenario
\* the applied weather and time are the requested ones.
C19_EffectivePreset ==
    (pc \in {"bind", "loop", "finally", "done"} /\ "weather_man" \in locals) =>
        IF args.scenario = "night"
        THEN AppliedIs("CLEAR", "NIGHT")
        ELSE AppliedIs(NamedBy(args.weather), NamedBy(args.time))

\* A night run for which foggy weather at noon was requested, after the
\* preset was applied.
C19_Witness ==
    /\ pc = "loop" /\ "weather_man" \in locals
    /\ args.scenario = "night" /\ args.weather = "foggy" /\ args.time = "noon"
    /\ env_weather # <<>>

(***************************************************************************)
(* Properties of the congestion injector: the delay after a spawn          *)
(***************************************************************************)
\* C20: immediately after a spawn_congestion_vehicle call that spawned a
\* vehicle, the counter equals the configured delay (20), so the next spawn
\* attempt happens no earlier than 20 ticks later.
ClaimC20_CounterResetOnSpawn ==
    (/\ pc = "injector"
     /\ last_call.called /\ last_call.ret # <<>>
     /\ <<"log", "info", "congestion_spawned">> \in Range(out))
        => counter = spawn_delay

(***************************************************************************)
(* Properties of the congestion injector: what each kind of call changes   *)
(***************************************************************************)
\* the step is a spawn_congestion_vehicle call of the driven injector
InjectorCalled == pc = "injector" /\ tick_no' = tick_no + 1

RegistryUntouched ==
    UNCHANGED <<vehicles_list, world_vehicles, vehicle_state, next_id>>

\* C21: when a congestion spawn attempt returns no actor, the counter is
\* reset to the delay (20), alt is unchanged, nothing is appended to the
\* vehicle registry, and the next attempt (a full delay later) uses the same
\* spawn point and route: alt only changes in a call that spawned a
\* vehicle, an attempt is only made at counter 0, and a call lowers the
\* counter by at most 1.
C21_FailedAttemptStep ==
    InjectorCalled =>
        /\ (last_call'.attempt /\ last_call'.ret = <<>>) =>
              /\ counter' = spawn_delay
              /\ alt' = alt
              /\ RegistryUntouched
        /\ alt' # alt => last_call'.ret # <<>>
        /\ last_call'.attempt => counter = 0 /\ last_call'.a = alt
        /\ counter' >= counter - 1

C21_FailedAttempt == [][C21_FailedAttemptStep]_vars

\* The attempt of tick 21 failed and so did the next one, a full delay
\* later.
C21_Witness ==
    /\ pc = "injector" /\ tick_no = 2 * spawn_delay + 2
    /\ last_call.attempt /\ last_call.ret = <<>>
    /\ counter = spawn_delay /\ vehicles_list = <<>> /\ ~alt

\* C22: a spawn_congestion_vehicle call made while the counter is above 0
\* decrements the counter by exactly 1 and does nothing else: no spawn
\* attempt is made, and alt and the vehicle registry are unchanged.
C22_WaitingStep ==
    (InjectorCalled /\ counter > 0) =>
        /\ counter' = counter - 1
        /\ ~last_call'.attempt /\ last_call'.ret = <<>>
        /\ alt' = alt
        /\ RegistryUntouched
        /\ \A i \in 1..Len(out') : out'[i][1] \notin {"fail", "log", "raise"}

C22_Waiting == [][C22_WaitingStep]_vars

\* A waiting call made at a full counter while the live count was below the
\* cap.
C22_Witness ==
    /\ pc = "injector"
    /\ last_call.called /\ last_call.c = spawn_delay /\ last_call.n < VehicleCap
    /\ counter = spawn_delay - 1

\* C23: a spawn_congestion_vehicle call made while the counter is 0 and the
\* live vehicle count is at or above 200 makes no spawn attempt and leaves
\* counter, alt and the registry unchanged, so the attempt is made on the
\* first later tick on which the count is below 200.
C23_AtCapStep ==
    (InjectorCalled /\ counter = 0) =>
        IF LiveVehicleCount >= VehicleCap
        THEN /\ ~last_call'.attempt /\ last_call'.ret = <<>>
             /\ counter' = 0
             /\ alt' = alt
             /\ RegistryUntouched
        ELSE last_call'.attempt

C23_AtCap == [][C23_AtCapStep]_vars

\* A call blocked at the cap, one vehicle of the registry being among the
\* 200 live ones.
C23_Witness ==
    /\ pc = "injector"
    /\ last_call.called /\ last_call.c = 0 /\ last_call.n = VehicleCap
    /\ ~last_call.attempt /\ counter = 0
    /\ Len(vehicles_list) = 1 /\ AllTrackedLive

(***************************************************************************)
(* Properties of the WeatherManager: presets and composed parameters       *)
(***************************************************************************)
OriginalPresets == InitialWeatherObjs(LibraryPreset)

\* the last step was a set_weather(wt) call that returned
JustSetWeather(wt) == out = <<<<"enter", "set_weather", wt>>>>

\* C24: the weather presets held by a WeatherManager never change after
\* construction: set_weather takes a working copy, so for every sequence of
\* set_weather / set_time_of_day calls the composed parameters right after
\* set_weather(t) equal the original preset of t.
ClaimC24_PresetsImmutable ==
    pc = "wm_client" =>
        /\ weather_objs = OriginalPresets
        /\ \A wt \in WeatherType :
              JustSetWeather(wt) => weather_objs[current_weather] = OriginalPresets[wt]

\* C25: apply_settings pushes weather parameters to the environment and
\* changes vehicle lights only when both a weather type and a time of day
\* have been set; called before that (no weather set, or weather set but no
\* time of day) it changes nothing in the environment.
ClaimC25_ApplyNeedsBothStep ==
    (/\ pc = "wm_client"
     /\ Entered("apply_settings")
     /\ (weather_type = None \/ time_of_day = None))
        => UNCHANGED <<vehicle_state, env_weather>>

ClaimC25_ApplyNeedsBoth == [][ClaimC25_ApplyNeedsBothStep]_vars

\* C26: when set_weather is called on a manager whose time of day is
\* already set, the manager goes back to WEATHER_SET: the earlier time of
\* day no longer counts as set, and its effects (sun altitude, night fog
\* offset) are not part of the composed parameters until set_time_of_day is
\* called again.
ClaimC26_SetWeatherResetsTimeStep ==
    (/\ pc = "wm_client"
     /\ time_of_day \in TimeOfDay
     /\ \E wt \in WeatherType : out' = <<<<"enter", "set_weather", wt>>>>)
        => /\ time_of_day' = None
           /\ weather_objs'[current_weather'] = OriginalPresets[weather_type']

ClaimC26_SetWeatherResetsTime == [][ClaimC26_SetWeatherResetsTimeStep]_vars

(***************************************************************************)
(* Properties of the WeatherManager: invalid values                        *)
(***************************************************************************)
Raises(exc) == out'[Len(out')] = <<"raise", exc>>

\* C27: set_weather with a value that is not one of the recognised weather
\* types, and set_time_of_day (after a weather was set) with a value that is
\* not NOON or NIGHT, raise an error to the caller.
C27_InvalidValuesStep ==
    pc = "wm_client" =>
        /\ (Entered("set_weather") /\ out'[1][3] \notin WeatherType)
              => Raises("ValueError")
        /\ (Entered("set_time_of_day") /\ current_weather # None
                                       /\ out'[1][3] \notin TimeOfDay)
              => Raises("ValueError")

C27_InvalidValues == [][C27_InvalidValuesStep]_vars

\* set_time_of_day was just called with a value that is no time of day and
\* raised, on a manager whose selected preset is the rainy one and whose weather
\* type was left by a set_weather call with a value that is no weather type.
C27_Witness ==
    /\ pc = "wm_client"
    /\ weather_type \notin WeatherType \cup {None}
    /\ current_weather = "RAINY"
    /\ time_of_day = "BOGUS"
    /\ out = <<<<"enter", "set_time_of_day", "BOGUS">>, <<"raise", "ValueError">>>>

(***************************************************************************)
(* Properties of spawn_walkers: a failed controller spawn, the             *)
(* synchronisation tick                                                    *)
(***************************************************************************)
\* C28: when a controller spawn fails in phase 2, spawn_walkers still
\* returns normally: that entry stays in the registry as body-only and is
\* left out of the start / go-to-location / max-speed phase, while every
\* fully paired entry is started.
ClaimC28_ControllerFailure ==
    (AfterSpawnWalkers /\ <<"fail", "controller">> \in Range(out)) =>
        /\ \A i \in 1..Len(out) : out[i][1] # "raise"
        /\ Cardinality({i \in 1..Len(walkers_list) : "con" \notin DOMAIN walkers_list[i]})
              = Count(out, <<"fail", "controller">>)
        /\ {started[j].con : j \in 1..Len(started)} = RegisteredControllers

(***************************************************************************)
(* Properties of the tick loop: lights of an injected vehicle              *)
(***************************************************************************)
\* the step is an iteration of the tick loop whose spawn_congestion_vehicle
\* call returned a vehicle
InjectedInLoop ==
    /\ pc = "loop" /\ pc' = "loop"
    /\ next_id' = next_id + 1
    /\ last_call'.ret = <<next_id>>

\* C29: in the tick loop, whenever spawn_congestion_vehicle returns a vehicle,
\* before the next tick the light bits required by the active weather type
\* (fog and low beam for foggy, low beam for rainy, none for clear) are ORed
\* into that new vehicle's light state.
C29_InjectedLightsStep ==
    InjectedInLoop =>
        /\ weather_type' = weather_type
        /\ vehicle_state'[next_id].lights =
              NewVehicle.lights \cup (CASE weather_type = "FOGGY" -> {"Fog", "LowBeam"}
                                        [] weather_type = "RAINY" -> {"LowBeam"}
                                        [] weather_type = "CLEAR" -> {})

C29_InjectedLights == [][C29_InjectedLightsStep]_vars

\* A congestion run under foggy weather whose last loop iteration injected
\* a vehicle that now has its fog and low-beam lights on.
C29_Witness ==
    /\ pc = "loop"
    /\ InjectsCongestion(args)
    /\ weather_type = "FOGGY"
    /\ last_call.called /\ last_call.ret # <<>>
    /\ last_call.ret[1] \in DOMAIN vehicle_state
    /\ vehicle_state[last_call.ret[1]].lights = {"Fog", "LowBeam"}

\* positions of the events of the last step
ControllerBatchAt == {i \in 1..Len(out) : out[i] = <<"call", "apply_batch_sync", "controllers">>}
SyncTickAt == {i \in 1..Len(out) : out[i] = <<"call", "world.tick", "">>}
ControllerStartAt == {i \in 1..Len(out) : out[i][1] = "call" /\ out[i][2] = "start"}

\* C30: in spawn_walkers, one environment tick happens after the controller
\* batch has returned and before the first start / go_to_location /
\* set_max_speed call on any controller.  (A call that raised before the
\* start phase made neither the tick nor any of these calls.)
C30_TickBeforeStart ==
    AfterSpawnWalkers =>
        /\ ControllerStartAt # {} => out[Len(out)][1] # "raise"
        /\ out[Len(out)][1] # "raise" => Cardinality(SyncTickAt) = 1
        /\ \A t \in SyncTickAt :
              /\ \A b \in ControllerBatchAt : b < t
              /\ \A c \in ControllerStartAt : t < c

\* spawn_walkers ran with every controller spawned: the tick is followed by
\* the start of the ten controllers.
C30_Witness ==
    /\ AfterSpawnWalkers
    /\ Cardinality(ControllerStartAt) = DefaultWalkers
    /\ Len(started) = DefaultWalkers
    /\ SyncTickAt # {}

(***************************************************************************)
(* Properties of main(): the order of the teardown block                   *)
(***************************************************************************)
\* the step is a run of the finally block that got past line 123
TeardownRan == pc = "finally" /\ pc' = "done"

EventAt(e) == {i \in 1..Len(out') : out'[i] = e}
StopAt == {i \in 1..Len(out') : out'[i][1] = "call" /\ out'[i][2] = "stop"}

\* the controllers of the fully paired entries of the pedestrian list that
\* the finally block holds (lines 56, 111), and the bodies of that list
HeldControllers ==
    {LocalWalkersList[i].con :
        i \in {j \in 1..Len(LocalWalkersList) : "con" \in DOMAIN LocalWalkersList[j]}}
HeldBodies == {LocalWalkersList[i].id : i \in 1..Len(LocalWalkersList)}

\* C31: teardown acts in this order: stepping settings reverted, vehicle
\* registry batch-destroyed, stop() called on the controller (never on the
\* body) of every fully paired pedestrian, and only then the destroy batch
\* for the combined pedestrian/controller list submitted; no controller is
\* stopped after it was destroyed.  The pedestrians are those of the lists
\* the finally block holds.
C31_TeardownOrderStep ==
    TeardownRan =>
        /\ Cardinality(EventAt(<<"call", "apply_settings", "async">>)) = 1
        /\ Cardinality(EventAt(<<"call", "apply_batch", LocalVehiclesList>>)) >= 1
        /\ \A a \in EventAt(<<"call", "apply_settings", "async">>) :
           \E v \in EventAt(<<"call", "apply_batch", LocalVehiclesList>>) :
           \E w \in EventAt(<<"call", "apply_batch", LocalCombinedWalkerIds>>) :
              /\ a < v /\ v < w
              /\ \A k \in StopAt : v < k /\ k < w
        /\ {out'[k][3] : k \in StopAt} = HeldControllers
        /\ stopped' = stopped \cup HeldControllers
        /\ stopped' \cap HeldBodies = {}
        /\ stopped' \cap destroyed = {}
        /\ HeldControllers \cup HeldBodies \subseteq destroyed'

EffectsBetween(v, w) ==
    {t \in Traits :
        CASE t = "lane_change" -> w.lane # v.lane
          [] t = "ignore_light" -> w.ignore_lights # v.ignore_lights
          [] t = "ignore_signs" -> w.ignore_signs # v.ignore_signs
          [] OTHER -> w.speed_diff # v.speed_diff}

\* the traits whose effect the last call reported as applied
LoggedEffects(o) ==
    {t \in Traits :
        CASE t = "lane_change" -> <<"log", "info", "force_lane_change">> \in Range(o)
          [] t = "ignore_light" -> <<"log", "info", "ignore_lights">> \in Range(o)
          [] t = "ignore_signs" -> <<"log", "info", "ignore_signs">> \in Range(o)
          [] OTHER -> <<"log", "info", "overspeed">> \in Range(o)}

EnabledTraits(en) == {t \in Traits : en[t]}

\* C32: set_aggressive_behavior applies a trait's effect to the vehicle only
\* if that trait is enabled in the call and its own coin flip succeeded: a
\* disabled trait's effect is never applied, and every subset of the enabled
\* traits is a possible outcome for one vehicle.
C32_TraitsStep ==
    (pc = "behavior" /\ tick_no' = tick_no + 1) =>
        LET en == vehicle_state'[1].enabled[1]
        IN  /\ EffectsBetween(vehicle_state[1], vehicle_state'[1]) \subseteq EnabledTraits(en)
            /\ EffectsBetween(vehicle_state[1], vehicle_state'[1]) \subseteq LoggedEffects(out')
            /\ LoggedEffects(out') \subseteq EnabledTraits(en)
            /\ \A S \in SUBSET EnabledTraits(en) :
                  \E toss \in Tosses :
                     /\ EffectsBetween(NewVehicle,
                                       set_aggressive_behavior(NewVehicle, en, toss)) = S
                     /\ LoggedEffects(AggressionLog(en, toss)) = S

C32_Traits == [][C32_TraitsStep]_vars

\* A call with lane change and overspeed enabled and ignore-lights and
\* ignore-signs disabled, after which the vehicle drives faster and has no
\* other effect.
C32_Witness ==
    /\ pc = "behavior" /\ tick_no = 1
    /\ vehicle_state[1].enabled = <<Mask(TRUE, FALSE, FALSE, TRUE)>>
    /\ vehicle_state[1].speed_diff = SPEED_DIFF_PERCENT
    /\ vehicle_state[1].lane = "none"
    /\ vehicle_state[1].ignore_lights = 0 /\ vehicle_state[1].ignore_signs = 0
    /\ out = <<<<"log", "info", "overspeed">>>>

(***************************************************************************)
(* Properties of spawn_walkers: the max speed of a controller              *)
(***************************************************************************)
\* the body batch of the last step, the body a controller is attached to and
\* the speed value computed for the command that spawned a body
BodyBatchOf(o) == o[CHOOSE i \in 1..Len(o) : o[i][1] = "batch" /\ o[i][2] = "bodies"]
BodyOf(con) ==
    walkers_list[CHOOSE i \in 1..Len(walkers_list) :
                    "con" \in DOMAIN walkers_list[i] /\ walkers_list[i].con = con].id
PlannedSpeedOf(b, body) == b[3][CHOOSE i \in 1..Len(b[4]) : b[4][i] = body]

\* C33: in spawn_walkers, the max speed given to each started controller is
\* the speed value precomputed for that controller's own body, also when
\* some body spawns of phase 1 failed and the speed list had to be realigned
\* with the surviving bodies.
C33_OwnSpeed ==
    AfterSpawnWalkers =>
        \A j \in 1..Len(started) :
            /\ started[j].con \in RegisteredControllers
            /\ started[j].speed = PlannedSpeedOf(BodyBatchOf(out), BodyOf(started[j].con))

\* Only the first body spawn failed; the controllers were started with the
\* speeds computed for the second command onwards.
C33_Witness ==
    /\ AfterSpawnWalkers
    /\ BodyBatchOf(out)[4][1] = 0
    /\ BodyBatchOf(out)[3] = [i \in 1..WalkersRealigned |-> i]
    /\ Len(started) = WalkersRealigned - 1
    /\ \A j \in 1..Len(started) : started[j].speed = j + 1

(***************************************************************************)
(* Properties of main(): injected vehicles at teardown                     *)
(***************************************************************************)
\* C34: every vehicle id appended to the registry by a successful congestion
\* injection during the tick loop is part of the vehicle destroy batch that
\* teardown submits when the loop is interrupted (the list teardown reads is
\* the same list the injector appends to).
C34_InjectedDestroyedStep ==
    (TeardownRan /\ "lists" \in locals /\ InjectsCongestion(args)) =>
        /\ <<"call", "apply_batch", vehicles_list>> \in Range(out')
        /\ Range(vehicles_list) \subseteq destroyed'
        /\ world_vehicles' \cap Range(vehicles_list) = {}

C34_InjectedDestroyed == [][C34_InjectedDestroyedStep]_vars

\* A congestion run was interrupted in the loop after an injection and the
\* teardown destroyed the injected vehicle.
C34_Witness ==
    /\ pc = "done"
    /\ InjectsCongestion(args)
    /\ last_call.called /\ last_call.ret # <<>>
    /\ last_call.ret[1] \in Range(vehicles_list) \cap destroyed
    /\ <<"call", "apply_batch", vehicles_list>> \in Range(out)

\* C35: the teardown block itself completes without raising for every point
\* at which startup can fail or be interrupted, including a failure before
\* the world handle, the traffic manager or the TrafficGenerator was
\* obtained.
ClaimC35_TeardownCompletesStep ==
    (pc = "finally" /\ teardown_runs' = teardown_runs + 1) =>
        /\ pc' = "done"
        /\ \A i \in 1..Len(out') : out'[i][1] # "raise"

ClaimC35_TeardownCompletes == [][ClaimC35_TeardownCompletesStep]_vars

(***************************************************************************)
(* Properties of the WeatherManager: state after a rejected value          *)
(***************************************************************************)
\* C36: a set_weather call with an unrecognised weather type, or a
\* set_time_of_day call with an unrecognised time-of-day value, leaves the
\* manager's weather type, time of day and composed parameters exactly as
\* they were before the call.
ClaimC36_RejectedValueStep ==
    (/\ pc = "wm_client"
     /\ \/ Entered("set_weather") /\ out'[1][3] \notin WeatherType
        \/ Entered("set_time_of_day") /\ out'[1][3] \notin TimeOfDay)
        => UNCHANGED <<weather_type, time_of_day, current_weather, weather_objs>>

ClaimC36_RejectedValue == [][ClaimC36_RejectedValueStep]_vars

(***************************************************************************)
(* Properties of the congestion injector: progress                         *)
(***************************************************************************)
\* the step is a spawn_congestion_vehicle call of the endlessly driven injector
LiveCalled == pc = "injector" /\ tick_no' # tick_no

\* C37: while the tick loop keeps calling spawn_congestion_vehicle once per
\* tick, the injector never stays more than 20 consecutive ticks without
\* being ready to attempt a spawn (the counter is never above the delay and
\* every call that finds it above 0 lowers it by one), and if the live
\* vehicle count seen by the calls is below 200 infinitely often then spawn
\* attempts are made infinitely often.
C37_ReadyWithinDelayStep ==
    LiveCalled =>
        /\ counter \in 0..spawn_delay
        /\ counter' \in 0..spawn_delay
        /\ counter > 0 => counter' = counter - 1 /\ ~last_call'.attempt
        /\ (counter = 0 /\ ~last_call'.attempt) => counter' = 0

C37_NeverStopsForGood ==
    /\ [][C37_ReadyWithinDelayStep]_vars
    /\ ([]<><<LiveCalled /\ LiveVehicleCount < VehicleCap>>_vars)
          => ([]<><<LiveCalled /\ last_call'.attempt>>_vars)

\* An attempt made at counter 0 has just failed and reset the counter, in a
\* run in which an earlier attempt had spawned a vehicle.
C37_Witness ==
    /\ pc = "injector"
    /\ last_call.called /\ last_call.attempt /\ last_call.c = 0
    /\ last_call.ret = <<>>
    /\ counter = spawn_delay
    /\ vehicles_list # <<>>

====
